---- MODULE Spec2Model ----
(***************************************************************************)
(* A model of the delivery core of checkend-go: the asynchronous Worker    *)
(* (queue, processing goroutine, Flush/Stop protocol) and the package      *)
(* level entry points that drive it.                                       *)
(*                                                                         *)
(* Every goroutine is a process with a program counter.  Caller threads    *)
(* run the public methods; each processing goroutine (Worker.run) is a     *)
(* task.  A sync.Mutex is its holder, a channel is its buffer (queue), a   *)
(* closed flag (done) or the set of senders blocked on it (flushCh).       *)
(* Time is abstracted: a timer may fire at any moment after it was armed.  *)
(***************************************************************************)
EXTENDS Integers, Sequences, FiniteSets, TLC

\* ------------------------------------------------------------- bounds
\* config.MaxQueueSize of the workers of the model (capacity of w.queue).
MaxQueueSize == 1
\* Number of notices that may ever be accepted by a queue.
MaxNotices == 2
\* Number of Worker objects that may ever be constructed.
MaxWorkers == 2

\* The caller goroutines: two, so that any two methods may overlap.
Callers == {1, 2}
\* The processing goroutines that may be alive at the same time: two, so
\* that a second `go w.run()` may overlap with the first.
Tasks   == {1, 2}
Workers == 1..MaxWorkers

NoThread == 0
NoNotice == 0

\* sendWithRetry's maxRetries argument at both call sites of Worker.run.
MaxRetries == 3

\* What one HTTP exchange of Client.Send can end in: status 201, 401, 422,
\* or a 5xx.
Outcomes == {"created", "unauthorized", "unprocessable", "server_error"}

\* Client.Send's result: a response only for a 201 whose body parses.
ClientSend(outcome) == outcome = "created"

\* ----------------------------------------------------- package filters
\* Go strings are TLA+ strings; the functions of package strings that the
\* filters call are computed character by character.
UpperCase == "ABCDEFGHIJKLMNOPQRSTUVWXYZ"
LowerCase == "abcdefghijklmnopqrstuvwxyz"

CharAt(s, i) == SubSeq(s, i, i)

\* strings.ToLower, on ASCII.
ToLowerChar(c) ==
  IF \E i \in 1..Len(UpperCase) : CharAt(UpperCase, i) = c
    THEN CharAt(LowerCase, CHOOSE i \in 1..Len(UpperCase) : CharAt(UpperCase, i) = c)
    ELSE c

RECURSIVE ToLower(_)
ToLower(s) == IF Len(s) = 0 THEN "" ELSE ToLowerChar(CharAt(s, 1)) \o ToLower(Tail(s))

\* strings.Contains, strings.HasSuffix and strings.TrimPrefix.
Contains(s, substr) ==
  \E i \in 0..(Len(s) - Len(substr)) : SubSeq(s, i + 1, i + Len(substr)) = substr

HasSuffix(s, suffix) ==
  /\ Len(s) >= Len(suffix)
  /\ SubSeq(s, Len(s) - Len(suffix) + 1, Len(s)) = suffix

HasPrefix(s, prefix) ==
  /\ Len(s) >= Len(prefix)
  /\ SubSeq(s, 1, Len(prefix)) = prefix

TrimPrefix(s, prefix) ==
  IF HasPrefix(s, prefix) THEN SubSeq(s, Len(prefix) + 1, Len(s)) ELSE s

\* The constants of the sanitize filter.
FilteredValue == "[FILTERED]"
maxDepth == 10
maxStringLen == 10000

\* An interface{} value: a record of its dynamic kind and, by kind, its
\* string (s), its number (n) or its elements (m: keys to values for a
\* map[string]interface{}, a sequence for a []interface{}).  A map or slice
\* is a reference in Go: kind "ref" stands for the n-th map or slice of a
\* heap, which is how a structure can hold itself.  Kind "stringer" is a
\* value of another type that has a String() method (returning s), kind
\* "opaque" one that has none.
Val(kind, s, n, m) == [kind |-> kind, s |-> s, n |-> n, m |-> m]
Nil == Val("nil", "", 0, <<>>)
Bool(b) == Val("bool", "", IF b THEN 1 ELSE 0, <<>>)
Number(n) == Val("number", "", n, <<>>)
String(s) == Val("string", s, 0, <<>>)
Stringer(s) == Val("stringer", s, 0, <<>>)
Opaque == Val("opaque", "", 0, <<>>)
Map(m) == Val("map", "", 0, m)
Slice(m) == Val("slice", "", 0, m)
Ref(n) == Val("ref", "", n, <<>>)

Deref(h, v) == IF v.kind = "ref" THEN h[v.n] ELSE v

\* NewSanitizeFilter: the filter keys, lowercased.
NewSanitizeFilter(keys) == [i \in DOMAIN keys |-> ToLower(keys[i])]

\* shouldFilter without the lowercasing of the key.
shouldFilterCaseSensitive(f, key) ==
  \E i \in DOMAIN f : Contains(key, f[i])

\* shouldFilter: the lowercased key contains one of the filter keys.
shouldFilter(f, key) ==
  \E i \in DOMAIN f : Contains(ToLower(key), f[i])

\* truncateString with the ellipsis in front.
truncateStringPrefixed(s) ==
  IF Len(s) > maxStringLen THEN "..." \o SubSeq(s, 1, maxStringLen) ELSE s

\* truncateString: s[:maxStringLen] + "..." for a string longer than that.
truncateString(s) ==
  IF Len(s) > maxStringLen THEN SubSeq(s, 1, maxStringLen) \o "..." ELSE s

\* valueToString: String() of a value that has it.
valueToString(v) == IF v.kind = "stringer" THEN v.s ELSE "[UNKNOWN TYPE]"

RECURSIVE filterMap(_, _, _, _)
RECURSIVE filterValue(_, _, _, _)
RECURSIVE filterSlice(_, _, _, _)

\* filterMap: a new map with the same keys; the value of a key to filter is
\* FilteredValue, any other value is filtered one level deeper.
filterMap(f, h, m, depth) ==
  IF depth > maxDepth
    THEN Map("_truncated" :> String("[MAX DEPTH EXCEEDED]"))
    ELSE Map([key \in DOMAIN m |->
                IF shouldFilter(f, key)
                  THEN String(FilteredValue)
                  ELSE filterValue(f, h, m[key], depth + 1)])

\* filterValue cutting one level too late.
filterValueLateCutoff(f, h, value, depth) ==
  IF depth > maxDepth + 1
    THEN String("[MAX DEPTH EXCEEDED]")
    ELSE LET v == Deref(h, value) IN
         CASE v.kind = "map" -> filterMap(f, h, v.m, depth)
           [] v.kind = "slice" -> filterSlice(f, h, v.m, depth)
           [] v.kind = "string" -> String(truncateString(v.s))
           [] v.kind \in {"nil", "bool", "number"} -> v
           [] OTHER -> String(truncateString(valueToString(v)))

\* filterValue handing a slice back as it is, without a copy.
filterValueSharingSlices(f, h, value, depth) ==
  IF depth > maxDepth
    THEN String("[MAX DEPTH EXCEEDED]")
    ELSE LET v == Deref(h, value) IN
         CASE v.kind = "map" -> filterMap(f, h, v.m, depth)
           [] v.kind = "slice" -> value
           [] v.kind = "string" -> String(truncateString(v.s))
           [] v.kind \in {"nil", "bool", "number"} -> v
           [] OTHER -> String(truncateString(valueToString(v)))

\* filterValue: the type switch.  A map or slice of the input is read
\* (Deref) and what is returned for it is the new map of filterMap or the
\* new slice of filterSlice, never the reference itself.
filterValue(f, h, value, depth) ==
  IF depth > maxDepth
    THEN String("[MAX DEPTH EXCEEDED]")
    ELSE LET v == Deref(h, value) IN
         CASE v.kind = "map" -> filterMap(f, h, v.m, depth)
           [] v.kind = "slice" -> filterSlice(f, h, v.m, depth)
           [] v.kind = "string" -> String(truncateString(v.s))
           [] v.kind \in {"nil", "bool", "number"} -> v
           [] OTHER -> String(truncateString(valueToString(v)))

\* filterSlice: a new slice of the filtered items, one level deeper.
filterSlice(f, h, items, depth) ==
  Slice([i \in DOMAIN items |-> filterValue(f, h, items[i], depth + 1)])

\* Filter: nil for a nil map, else filterMap at depth 0.
Filter(f, h, d) ==
  IF d.kind = "nil" THEN Nil ELSE filterMap(f, h, Deref(h, d).m, 0)


\* An error value: its dynamic type, as reflect.TypeOf(err).String() prints
\* it, and what its Error() returns.  NilError is the nil error.
Error(type, message) == [type |-> type, message |-> message]
NilError == Error("<nil>", "")
TypeOf(e) == e.type

\* The interface types of the model and the types that implement them.
Implements == {<<"*net.OpError", "net.Error">>, <<"*app.RequestTimeout", "net.Error">>}

\* reflect.Type.AssignableTo, for two distinct types.
AssignableTo(t, p) == <<t, p>> \in Implements

\* regexp.Compile and Regexp.MatchString, for patterns made of literal
\* characters, "." and "*": a pattern compiles unless a "*" has nothing to
\* repeat, and it matches a string that has a substring it describes.
Compiles(pattern) == ~HasPrefix(pattern, "*") /\ ~Contains(pattern, "**")

MatchChar(c, d) == c = "." \/ c = d

RECURSIVE MatchHere(_, _)
MatchHere(re, s) ==
  IF Len(re) = 0 THEN TRUE
  ELSE IF Len(re) >= 2 /\ CharAt(re, 2) = "*"
    THEN \E i \in 0..Len(s) :
           /\ \A j \in 1..i : MatchChar(CharAt(re, 1), CharAt(s, j))
           /\ MatchHere(SubSeq(re, 3, Len(re)), SubSeq(s, i + 1, Len(s)))
    ELSE /\ Len(s) > 0
         /\ MatchChar(CharAt(re, 1), CharAt(s, 1))
         /\ MatchHere(Tail(re), Tail(s))

MatchString(re, s) == \E i \in 0..Len(s) : MatchHere(re, SubSeq(s, i + 1, Len(s)))

\* matchesString: the exact match, the suffix match, the regex match.
matchesString(errName, pattern) ==
  \/ errName = pattern
  \/ HasSuffix(errName, "." \o pattern) \/ HasSuffix(errName, pattern)
  \/ Compiles(pattern) /\ MatchString(pattern, errName)

\* A pattern of Config.IgnoredErrors: a string, a reflect.Type (s is its
\* String()) or an error value.
StringPattern(s) == [kind |-> "string", s |-> s, e |-> NilError]
TypePattern(s) == [kind |-> "type", s |-> s, e |-> NilError]
ErrorPattern(e) == [kind |-> "error", s |-> "", e |-> e]

\* ShouldIgnore looking at the first pattern only.
ShouldIgnoreFirstOnly(ps, e) ==
  IF e = NilError THEN TRUE
  ELSE LET errType == TypeOf(e)
           errName == TrimPrefix(errType, "*")
       IN \E i \in DOMAIN ps \cap {1} :
            CASE ps[i].kind = "string" -> matchesString(errName, ps[i].s)
              [] ps[i].kind = "type" -> errType = ps[i].s \/ AssignableTo(errType, ps[i].s)
              [] ps[i].kind = "error" -> errType = TypeOf(ps[i].e)
              [] OTHER -> FALSE

\* ShouldIgnore comparing an error pattern with the error by value.
ShouldIgnoreByValue(ps, e) ==
  IF e = NilError THEN TRUE
  ELSE LET errType == TypeOf(e)
           errName == TrimPrefix(errType, "*")
       IN \E i \in DOMAIN ps :
            CASE ps[i].kind = "string" -> matchesString(errName, ps[i].s)
              [] ps[i].kind = "type" -> errType = ps[i].s \/ AssignableTo(errType, ps[i].s)
              [] ps[i].kind = "error" -> e = ps[i].e
              [] OTHER -> FALSE

\* IgnoreFilter.ShouldIgnore.
ShouldIgnore(ps, e) ==
  IF e = NilError THEN TRUE
  ELSE LET errType == TypeOf(e)
           errName == TrimPrefix(errType, "*")
       IN \E i \in DOMAIN ps :
            CASE ps[i].kind = "string" -> matchesString(errName, ps[i].s)
              [] ps[i].kind = "type" -> errType = ps[i].s \/ AssignableTo(errType, ps[i].s)
              [] ps[i].kind = "error" -> errType = TypeOf(ps[i].e)
              [] OTHER -> FALSE


\* ------------------------------------------- notices and the client
\* A map value holding no key, and len() of a map (0 for a nil map).
EmptyMap == Map(<<>>)
MapLen(v) == Cardinality(DOMAIN v.m)

\* A map[string]string held as an interface{} value.
StringMap(m) == Val("stringmap", "", 0, m)

\* strings.ToUpper, on ASCII.
ToUpperChar(c) ==
  IF \E i \in 1..Len(LowerCase) : CharAt(LowerCase, i) = c
    THEN CharAt(UpperCase, CHOOSE i \in 1..Len(LowerCase) : CharAt(LowerCase, i) = c)
    ELSE c

RECURSIVE ToUpper(_)
ToUpper(s) == IF Len(s) = 0 THEN "" ELSE ToUpperChar(CharAt(s, 1)) \o ToUpper(Tail(s))

\* The Notice fields the model keeps (Backtrace, OccurredAt, Notifier and
\* the server fields are left out; a nil map is Nil).
Notice(class, message, fingerprint, tags, context, request, user, environment) ==
  [ErrorClass |-> class, Message |-> message, Fingerprint |-> fingerprint,
   Tags |-> tags, Context |-> context, Request |-> request, User |-> user,
   Environment |-> environment]

\* A nil *Notice.
NilNotice == Notice("<nil>", "", "", <<>>, Nil, Nil, Nil, "")

maxMessageLength == 10000

\* extractMessage: err.Error(), cut at maxMessageLength.
extractMessage(e) ==
  IF Len(e.message) > maxMessageLength
    THEN SubSeq(e.message, 1, maxMessageLength) \o "..."
    ELSE e.message

\* The position of the last "." of s, 0 when it has none.
LastDot(s) ==
  CHOOSE i \in 0..Len(s) :
    /\ i = 0 \/ CharAt(s, i) = "."
    /\ \A j \in (i + 1)..Len(s) : CharAt(s, j) # "."

\* extractClassName: the element type of a pointer; its name, with the
\* package in front unless that is package errors.  (The model's types live
\* in packages whose import path is the package name.)
extractClassName(e) ==
  IF e = NilError THEN "error"
  ELSE LET t == TrimPrefix(TypeOf(e), "*")
           dot == LastDot(t)
           name == SubSeq(t, dot + 1, Len(t))
           pkg == IF dot = 0 THEN "" ELSE SubSeq(t, 1, dot - 1)
       IN IF pkg # "" /\ ~HasPrefix(pkg, "errors") THEN pkg \o "." \o name ELSE name

\* isSensitiveEnvVar: the uppercased name contains one of the patterns.
sensitivePatterns == <<"SECRET", "PASSWORD", "KEY", "TOKEN", "CREDENTIAL", "AUTH", "PRIVATE">>

isSensitiveEnvVar(key) ==
  \E i \in DOMAIN sensitivePatterns : Contains(ToUpper(key), sensitivePatterns[i])

\* getEnvironmentVars: the variables of the process environment (a function
\* from names to values) whose name is not sensitive.
getEnvironmentVars(environ) ==
  StringMap([key \in {k \in DOMAIN environ : ~isSensitiveEnvVar(k)} |-> environ[key]])

\* Build fails with a panic: err.Error() on a nil error (line 107), or the
\* assignment of line 49 to the nil map Filter returned for a nil context.
BuildPanics(cfg, e, context) ==
  \/ e = NilError
  \/ cfg.SendEnvironment /\ context.kind = "nil"

\* Build without the checks of the send flags.
BuildIgnoringFlags(cfg, environ, e, context, user, request, fingerprint, tags) ==
  LET f == NewSanitizeFilter(cfg.FilterKeys)
      sanitizedContext == Filter(f, <<>>, context)
  IN Notice(extractClassName(e), extractMessage(e), fingerprint, tags,
            IF cfg.SendEnvironment
              THEN Map(("env" :> getEnvironmentVars(environ)) @@ sanitizedContext.m)
              ELSE sanitizedContext,
            IF MapLen(request) > 0 THEN Filter(f, <<>>, request) ELSE Nil,
            IF MapLen(user) > 0 THEN Filter(f, <<>>, user) ELSE Nil,
            cfg.Environment)

\* NoticeBuilder.Build, lines 32-80 of notice_builder.go.
Build(cfg, environ, e, context, user, request, fingerprint, tags) ==
  LET f == NewSanitizeFilter(cfg.FilterKeys)
      sanitizedContext == Filter(f, <<>>, context)
  IN Notice(extractClassName(e), extractMessage(e), fingerprint, tags,
            IF cfg.SendEnvironment
              THEN Map(("env" :> getEnvironmentVars(environ)) @@ sanitizedContext.m)
              ELSE sanitizedContext,
            IF cfg.SendRequestData /\ MapLen(request) > 0
              THEN Filter(f, <<>>, request) ELSE Nil,
            IF cfg.SendUserData /\ MapLen(user) > 0
              THEN Filter(f, <<>>, user) ELSE Nil,
            cfg.Environment)

\* Notice.ToPayload, lines 61-99 of notice.go, on the Payload fields the
\* model keeps: the environment is stored under "environment" first, then
\* every entry of the Notice's context is copied over it.
ToPayload(n) ==
  [Error |-> [Class |-> n.ErrorClass, Message |-> n.Message,
              Fingerprint |-> n.Fingerprint, Tags |-> n.Tags],
   Context |-> Map(n.Context.m @@ ("environment" :> String(n.Environment))),
   Request |-> IF MapLen(n.Request) > 0 THEN n.Request ELSE Nil,
   User |-> IF MapLen(n.User) > 0 THEN n.User ELSE Nil]

\* A nil *Payload.
NilPayload == [Error |-> [Class |-> "<nil>", Message |-> "", Fingerprint |-> "", Tags |-> <<>>],
               Context |-> Nil, Request |-> Nil, User |-> Nil]

\* json.Marshal fails on a value that holds one it cannot encode.
RECURSIVE Marshals(_)
Marshals(v) ==
  CASE v.kind \in {"map", "slice"} -> \A k \in DOMAIN v.m : Marshals(v.m[k])
    [] v.kind \in {"opaque", "ref"} -> FALSE
    [] OTHER -> TRUE

MarshalsPayload(p) == Marshals(p.Context) /\ Marshals(p.Request) /\ Marshals(p.User)

\* An *APIResponse, and nil.
APIResponse(id, problemID) == [nil |-> FALSE, ID |-> id, ProblemID |-> problemID]
NilResponse == [nil |-> TRUE, ID |-> 0, ProblemID |-> 0]

\* The HTTP status codes the client tells apart.
StatusCreated == 201
StatusUnauthorized == 401
StatusUnprocessableEntity == 422
StatusTooManyRequests == 429

\* A response body: what kind of JSON text it is and, for an object, its
\* id and problem_id (numbers, 0 when the object lacks them).
Body(json, id, problemID) == [json |-> json, id |-> id, problem_id |-> problemID]

\* json.Unmarshal into an APIResponse succeeds for an object whose id and
\* problem_id are numbers or missing, and for null.
Unmarshals(body) == body.json \in {"object", "null"}

\* What happens to one request: NewRequest rejects the endpoint URL, Do
\* fails (no connection, timeout), the body cannot be read, or a response
\* with a status and a body arrives.
Exchange(fate, status, body) == [fate |-> fate, status |-> status, body |-> body]

\* handleHTTPError, lines 223-238: the level and the message logged.
handleHTTPError(statusCode) ==
  CASE statusCode = StatusUnauthorized -> <<"error", "Authentication failed: invalid API key">>
    [] statusCode = StatusUnprocessableEntity -> <<"error", "Validation error">>
    [] statusCode = StatusTooManyRequests -> <<"warning", "Rate limited by Checkend API">>
    [] OTHER -> IF statusCode >= 500 THEN <<"error", "Server error">>
                ELSE <<"error", "HTTP error">>

\* What a call of Send comes to: the *APIResponse returned, whether a
\* request went out (httpClient.Do was called), and what was logged.
Sent(resp, issued, log) == [resp |-> resp, issued |-> issued, log |-> log]
NotSent == Sent(NilResponse, FALSE, <<"", "">>)

\* Send answering every status below 300 like a 201.
SendAnySuccess(apiKey, n, x) ==
  IF apiKey = "" THEN Sent(NilResponse, FALSE, <<"error", "Cannot send notice: api_key not configured">>)
  ELSE IF ~MarshalsPayload(ToPayload(n)) THEN Sent(NilResponse, FALSE, <<"error", "Failed to marshal payload">>)
  ELSE IF x.fate = "bad_url" THEN Sent(NilResponse, FALSE, <<"error", "Failed to create request">>)
  ELSE IF x.fate = "do_fails" THEN Sent(NilResponse, TRUE, <<"error", "Failed to send request">>)
  ELSE IF x.fate = "read_fails" THEN Sent(NilResponse, TRUE, <<"error", "Failed to read response">>)
  ELSE IF x.status >= 300 THEN Sent(NilResponse, TRUE, handleHTTPError(x.status))
  ELSE IF ~Unmarshals(x.body) THEN Sent(NilResponse, TRUE, <<"error", "Failed to parse response">>)
  ELSE Sent(APIResponse(x.body.id, x.body.problem_id), TRUE, <<"debug", "Notice sent successfully">>)

\* Client.Send, lines 172-221 of notice.go.
Send(apiKey, n, x) ==
  IF apiKey = "" THEN Sent(NilResponse, FALSE, <<"error", "Cannot send notice: api_key not configured">>)
  ELSE IF ~MarshalsPayload(ToPayload(n)) THEN Sent(NilResponse, FALSE, <<"error", "Failed to marshal payload">>)
  ELSE IF x.fate = "bad_url" THEN Sent(NilResponse, FALSE, <<"error", "Failed to create request">>)
  ELSE IF x.fate = "do_fails" THEN Sent(NilResponse, TRUE, <<"error", "Failed to send request">>)
  ELSE IF x.fate = "read_fails" THEN Sent(NilResponse, TRUE, <<"error", "Failed to read response">>)
  ELSE IF x.status # StatusCreated THEN Sent(NilResponse, TRUE, handleHTTPError(x.status))
  ELSE IF ~Unmarshals(x.body) THEN Sent(NilResponse, TRUE, <<"error", "Failed to parse response">>)
  ELSE Sent(APIResponse(x.body.id, x.body.problem_id), TRUE, <<"debug", "Notice sent successfully">>)


VARIABLES
  running,     \* running[w]: Worker.running
  queue,       \* queue[w]: contents of the buffered channel Worker.queue
  doneClosed,  \* doneClosed[w]: Worker.done has been closed
  wg,          \* wg[w]: counter of Worker.wg
  runningMu,   \* runningMu[w]: the goroutine holding Worker.runningMu
  task,        \* task[k]: state of the k-th processing goroutine
  pc,          \* pc[t]: where caller t stands
  kont,        \* kont[t]: where t continues when the Worker method returns
  tw,          \* tw[t]: the Worker t's current method was called on
  snap,        \* snap[t]: what t saw when it called Flush or Stop (history)
  accepted,    \* accepted[w]: notices placed in w's queue (history)
  sent,        \* delivery attempts the processing goroutines have started,
               \* as long as none has failed; Unreliable once one has (history)
  order,       \* the pairs <<a, b>> of notices such that Push(a) had returned
               \* true when Push(b) was called, kept as long as a is queued or
               \* in a goroutine's hands and b is queued (history)
  timedOut,    \* timedOut[w]: which shutdown timeout of w has elapsed: "none",
               \* "drain" (a drain context) or "stop" (a Stop gave up) (history)
  config,      \* the package's config: the resolved Configuration, or nil
  worker,      \* the package's worker: a Worker, or nil
  initialized, \* the package's initialized flag
  mu,          \* the package's sync.RWMutex: its writer and its readers
  nerr,        \* nerr[t]: the error t's current Notify or NotifySync call was
               \* given, and whether the call returned because of it
  fpc,         \* where the program exercising package filters stands
  filterKeys,  \* the keys NewSanitizeFilter was given
  heap,        \* the maps and slices of the input that are shared or cyclic
  data,        \* the map given to SanitizeFilter.Filter
  out,         \* what Filter returned
  patterns,    \* the patterns NewIgnoreFilter was given
  err,         \* the error given to IgnoreFilter.ShouldIgnore
  ignored,     \* what ShouldIgnore returned
  testingEnabled,  \* testing.go: the testing mode is on
  testingNotices,  \* testing.go: the notices captured in testing mode
  npc,         \* where the program exercising Build, ToPayload and Send stands
  input,       \* what that program calls them with
  notice,      \* the Notice it holds
  payload,     \* what ToPayload returned
  apiResp      \* what Client.Send returned

wvars == <<running, queue, doneClosed, wg, runningMu>>
tvars == <<pc, kont, tw, snap>>
hvars == <<accepted, order, sent, timedOut>>
pvars == <<config, worker, initialized, mu>>
fvars == <<fpc, filterKeys, heap, data, out, patterns, err, ignored>>
tsvars == <<testingEnabled, testingNotices>>
nvars == <<npc, input, notice, payload, apiResp>>
vars  == <<running, queue, doneClosed, wg, runningMu, task, pc, kont, tw,
           snap, accepted, order, sent, timedOut, config, worker, initialized, mu,
           nerr, fpc, filterKeys, heap, data, out, patterns, err, ignored,
           testingEnabled, testingNotices, npc, input, notice, payload, apiResp>>

\* The value of `sent` once a delivery attempt has failed.
Unreliable == -1

NoSnap == [q |-> {}, k |-> -1]

\* A processing goroutine that does not exist (not spawned, or returned).
\* (afterDone is history: the notice in hand was received when done had
\* been closed.  delay is the time.Sleep under way, in milliseconds.)
NoTask == [pc |-> "none", w |-> 0, mode |-> "run", notice |-> NoNotice,
           attempt |-> 0, flushFor |-> NoThread, ctxDone |-> FALSE,
           afterDone |-> FALSE, delay |-> 0]

\* A nil *Worker.
NilWorker == 0

\* The options of a Notify call: WithFingerprint and WithTags.
Options(fingerprint, tags) == [Fingerprint |-> fingerprint, Tags |-> tags]
NoOptions == Options("", <<>>)

\* nerr[t]: NoCall when t has not called Notify or NotifySync, or when its
\* last call went past the ignore check; Call(e, o) during a call with error
\* e and options o, and Ignored(e) once the call has returned because e is
\* ignored (history).  During a call the record also holds the notice
\* built, the BeforeNotify callbacks called so far (their positions in the
\* list), the number of Client.Send calls made on the caller's goroutine
\* and how the last one ended, how the call ends (state) and, for
\* NotifySync, what it returns.
NoCall == [err |-> NilError, opts |-> NoOptions, state |-> "none",
           notice |-> NilNotice, hooks |-> <<>>, attempts |-> 0, outcome |-> "none",
           resp |-> NilResponse]
Call(e, o) == [NoCall EXCEPT !.err = e, !.opts = o, !.state = "called"]
Ignored(e) == [NoCall EXCEPT !.err = e, !.state = "ignored"]

\* DefaultFilterKeys, lines 25-42 of configuration.go.
DefaultFilterKeys ==
  <<"password", "password_confirmation", "secret", "secret_key", "api_key",
    "apikey", "access_token", "auth_token", "authorization", "token",
    "credit_card", "card_number", "cvv", "cvc", "ssn", "social_security">>

\* A nil *Configuration, and the Config values Configure is called with
\* (Enabled stands for what lines 184-188 resolve it to; a callback of
\* BeforeNotify is the value it returns).
NilConfig == [set |-> FALSE, Enabled |-> FALSE, AsyncSend |-> FALSE,
              IgnoredErrors |-> <<>>, BeforeNotify |-> <<>>, APIKey |-> "",
              Environment |-> "", FilterKeys |-> <<>>, SendRequestData |-> FALSE,
              SendEnvironment |-> FALSE, SendUserData |-> FALSE]
IgnoredErrorLists == {<<>>, <<StringPattern("customError")>>}
Configs == [Enabled : BOOLEAN, AsyncSend : BOOLEAN, IgnoredErrors : IgnoredErrorLists,
            BeforeNotify : {<<>>}, APIKey : {"key"}, Environment : {"production"}]

\* The errors Notify and NotifySync are called with.
NotifyErrors == {NilError, Error("*app.customError", "test error")}

\* The package variables at process start (checkend.go lines 31-36), and
\* NewWorker: an empty queue, open done, nothing running.
ProcessStart ==
  /\ running = [w \in Workers |-> FALSE]
  /\ queue = [w \in Workers |-> <<>>]
  /\ doneClosed = [w \in Workers |-> FALSE]
  /\ wg = [w \in Workers |-> 0]
  /\ runningMu = [w \in Workers |-> NoThread]
  /\ task = [k \in Tasks |-> NoTask]
  /\ pc = [t \in Callers |-> "idle"]
  /\ kont = [t \in Callers |-> "idle"]
  /\ tw = [t \in Callers |-> 1]
  /\ snap = [t \in Callers |-> NoSnap]
  /\ accepted = [w \in Workers |-> {}]
  /\ order = {}
  /\ sent = 0
  /\ timedOut = [w \in Workers |-> "none"]
  /\ config = NilConfig
  /\ worker = NilWorker
  /\ initialized = FALSE
  /\ mu = [w |-> NoThread, r |-> {}]
  /\ nerr = [t \in Callers |-> NoCall]
  /\ testingEnabled = FALSE
  /\ testingNotices = <<>>

\* What a program calls Build and Send with: the configuration, the process
\* environment, Build's arguments and what happens to the HTTP request.
Input(cfg, environ, e, context, user, request, fingerprint, tags, exchange) ==
  [cfg |-> cfg, environ |-> environ, err |-> e, context |-> context,
   user |-> user, request |-> request, fingerprint |-> fingerprint,
   tags |-> tags, exchange |-> exchange]

BuilderConfig(apiKey, environment, keys, sendRequestData, sendEnvironment, sendUserData) ==
  [APIKey |-> apiKey, Environment |-> environment, FilterKeys |-> keys,
   SendRequestData |-> sendRequestData, SendEnvironment |-> sendEnvironment,
   SendUserData |-> sendUserData]

NoInput ==
  Input(BuilderConfig("", "", <<>>, FALSE, FALSE, FALSE), <<>>, NilError, Nil, Nil, Nil,
        "", <<>>, Exchange("none", 0, Body("", 0, 0)))

\* A program that calls neither the filters nor Build and Send directly.
NoticeIdle ==
  /\ npc = "none" /\ input = NoInput /\ notice = NilNotice
  /\ payload = NilPayload /\ apiResp = NotSent

FiltersIdle ==
  /\ fpc = "none"
  /\ filterKeys = <<>> /\ heap = <<>> /\ data = Nil /\ out = Nil
  /\ patterns = <<>> /\ err = NilError /\ ignored = FALSE

\* A program that does not call package filters directly.
Init ==
  /\ ProcessStart
  /\ FiltersIdle
  /\ NoticeIdle

\* ------------------------------------------------------------ helpers
Range(s) == {s[i] : i \in DOMAIN s}

InPush(t) == pc[t] \in {"push_locked", "push_select", "push_true", "push_full",
                      "push_stopped"}

InStart(t) == pc[t] = "start_locked"

AllAccepted == UNION {accepted[w] : w \in Workers}

\* The notice a caller passes to Push: notices are numbered in the order in
\* which the queues accept them.
NewNotice == Cardinality(AllAccepted) + 1

FreeTasks == {k \in Tasks : task[k].pc = "none"}

\* The processing goroutine `go w.run()` spawns: the first unused one.
NewTask == CHOOSE k \in FreeTasks : \A j \in FreeTasks : k <= j

TasksOf(w) == {k \in Tasks : task[k].pc # "none" /\ task[k].w = w}

\* The notices processing goroutines have dequeued and not finished with.
Held(w) == {task[k].notice : k \in {j \in TasksOf(w) : task[j].notice # NoNotice}}

\* The notices of w that are queued or in a processing goroutine's hands.
Pending(w) == Range(queue[w]) \cup Held(w)

\* The goroutines with a delivery attempt (a call of Client.Send) in progress.
InFlight(w) == {k \in TasksOf(w) : task[k].pc = "sending"}

\* w.runningMu.Lock(): blocks while another goroutine holds the mutex.
Lock(t, w) ==
  /\ runningMu[w] = NoThread
  /\ runningMu' = [runningMu EXCEPT ![w] = t]

Unlock(w) == runningMu' = [runningMu EXCEPT ![w] = NoThread]

\* A Worker method returns to what called it.
Return(t) ==
  /\ pc' = [pc EXCEPT ![t] = kont[t]]
  /\ snap' = [snap EXCEPT ![t] = NoSnap]

\* ------------------------------------------------------- Worker.Start
\* Lines 34-45, under the mutex: a running worker is left alone; otherwise
\* running is set, the wait group is incremented and run() is spawned.
StartBody(t) ==
  LET w == tw[t] IN
  /\ pc[t] = "start_locked"
  /\ Unlock(w)
  /\ Return(t)
  /\ IF running[w]
       THEN UNCHANGED <<running, wg, task>>
       ELSE /\ running' = [running EXCEPT ![w] = TRUE]
            /\ wg' = [wg EXCEPT ![w] = @ + 1]
            /\ task' = [task EXCEPT ![NewTask] =
                          [NoTask EXCEPT !.pc = "select", !.w = w]]
  /\ UNCHANGED <<queue, doneClosed, kont, tw, hvars>>
  /\ UNCHANGED <<pvars, nerr, fvars, tsvars, nvars>>

\* -------------------------------------------------------- Worker.Stop
\* A Stop that would release the mutex only when it returns (a deferred
\* Unlock): it keeps it while it closes done and waits.
StopBodyDeferUnlock(t) ==
  LET w == tw[t] IN
  /\ pc[t] = "stop_locked"
  /\ IF running[w]
       THEN /\ running' = [running EXCEPT ![w] = FALSE]
            /\ pc' = [pc EXCEPT ![t] = "stop_close"]
            /\ UNCHANGED <<snap, runningMu>>
       ELSE /\ Return(t)
            /\ Unlock(w)
            /\ UNCHANGED running
  /\ UNCHANGED <<queue, doneClosed, wg, task, kont, tw, hvars>>
  /\ UNCHANGED <<pvars, nerr, fvars, tsvars, nvars>>

\* Lines 49-55: a worker that is not running is left alone (Stop returns);
\* otherwise running is cleared and the mutex released before anything else.
StopBody(t) ==
  LET w == tw[t] IN
  /\ pc[t] = "stop_locked"
  /\ Unlock(w)
  /\ IF running[w]
       THEN /\ running' = [running EXCEPT ![w] = FALSE]
            /\ pc' = [pc EXCEPT ![t] = "stop_close"]
            /\ UNCHANGED snap
       ELSE /\ Return(t)
            /\ UNCHANGED running
  /\ UNCHANGED <<queue, doneClosed, wg, task, kont, tw, hvars>>
  /\ UNCHANGED <<pvars, nerr, fvars, tsvars, nvars>>

\* Line 57, close(w.done): closing a closed channel panics, and a panic
\* that nothing recovers ends the process and every goroutine in it.
StopClose(t) ==
  LET w == tw[t] IN
  /\ pc[t] = "stop_close"
  /\ IF doneClosed[w]
       THEN /\ pc' = [u \in Callers |-> "panic"]
            /\ task' = [k \in Tasks |-> NoTask]
            /\ UNCHANGED doneClosed
       ELSE /\ pc' = [pc EXCEPT ![t] = "stop_wait"]
            /\ doneClosed' = [doneClosed EXCEPT ![w] = TRUE]
            /\ UNCHANGED task
  /\ UNCHANGED <<running, queue, wg, runningMu, kont, tw, snap, hvars>>
  /\ UNCHANGED <<pvars, nerr, fvars, tsvars, nvars>>

\* Lines 60-68: wg.Wait() returned, the processing goroutines have exited.
StopWaitDone(t) ==
  LET w == tw[t] IN
  /\ pc[t] = "stop_wait"
  /\ wg[w] = 0
  /\ Return(t)
  /\ UNCHANGED <<wvars, task, kont, tw, hvars>>
  /\ UNCHANGED <<pvars, nerr, fvars, tsvars, nvars>>

\* Lines 69-74: time.After(ShutdownTimeout) fired first.
StopWaitTimeout(t) ==
  LET w == tw[t] IN
  /\ pc[t] = "stop_wait"
  /\ Return(t)
  /\ timedOut' = [timedOut EXCEPT ![w] = "stop"]
  /\ UNCHANGED <<wvars, task, kont, tw, accepted, order, sent>>
  /\ UNCHANGED <<pvars, nerr, fvars, tsvars, nvars>>

\* -------------------------------------------------------- Worker.Push
\* A Push that would not look at the running flag.
PushBodyIgnoringRunning(t) ==
  LET w == tw[t] IN
  /\ pc[t] = "push_locked"
  /\ Unlock(w)
  /\ pc' = [pc EXCEPT ![t] = "push_select"]
  /\ UNCHANGED snap
  /\ UNCHANGED <<running, queue, doneClosed, wg, task, kont, tw, hvars>>
  /\ UNCHANGED <<pvars, nerr, fvars, tsvars, nvars>>

\* Lines 79-85: running is read under the mutex, which is released at once;
\* a worker that is not running makes Push return false.
PushBody(t) ==
  LET w == tw[t] IN
  /\ pc[t] = "push_locked"
  /\ Unlock(w)
  /\ pc' = [pc EXCEPT ![t] = IF running[w] THEN "push_select" ELSE "push_stopped"]
  /\ UNCHANGED snap
  /\ UNCHANGED <<running, queue, doneClosed, wg, task, kont, tw, hvars>>
  /\ UNCHANGED <<pvars, nerr, fvars, tsvars, nvars>>

\* A queue that would take one notice more than its capacity.
QueueHasRoomOffByOne(q) == Len(q) <= MaxQueueSize

\* The send case of the select at line 88 is ready: the buffer has room.
QueueHasRoom(q) == Len(q) < MaxQueueSize

\* Lines 87-93: a non-blocking send; the default case is taken when full.
PushSelect(t) ==
  LET w == tw[t] IN
  /\ pc[t] = "push_select"
  /\ IF QueueHasRoom(queue[w])
       THEN /\ queue' = [queue EXCEPT ![w] = Append(@, NewNotice)]
            /\ accepted' = [accepted EXCEPT ![w] = @ \cup {NewNotice}]
            /\ order' = order \cup {<<a, NewNotice>> : a \in snap[t].q \cap Pending(w)}
            /\ pc' = [pc EXCEPT ![t] = "push_true"]
       ELSE /\ pc' = [pc EXCEPT ![t] = "push_full"]
            /\ UNCHANGED <<queue, accepted, order>>
  /\ UNCHANGED <<running, doneClosed, wg, runningMu, task, kont, tw, snap,
                 sent, timedOut>>
  /\ UNCHANGED <<pvars, nerr, fvars, tsvars, nvars>>

\* Push returns true ("push_true") or false ("push_full", "push_stopped").
PushReturn(t) ==
  /\ pc[t] \in {"push_true", "push_full", "push_stopped"}
  /\ Return(t)
  /\ UNCHANGED <<wvars, task, kont, tw, hvars>>
  /\ UNCHANGED <<pvars, nerr, fvars, tsvars, nvars>>

\* ------------------------------------------------------- Worker.Flush
\* Lines 98-102: running is read under the mutex; `!running ||` returns.
FlushBody(t) ==
  LET w == tw[t] IN
  /\ pc[t] = "flush_locked"
  /\ Unlock(w)
  /\ IF running[w]
       THEN pc' = [pc EXCEPT ![t] = "flush_check"] /\ UNCHANGED snap
       ELSE Return(t)
  /\ UNCHANGED <<running, queue, doneClosed, wg, task, kont, tw, hvars>>
  /\ UNCHANGED <<pvars, nerr, fvars, tsvars, nvars>>

\* Line 102, after the mutex was released: `len(w.queue) == 0` returns.
FlushCheck(t) ==
  LET w == tw[t] IN
  /\ pc[t] = "flush_check"
  /\ IF Len(queue[w]) = 0
       THEN Return(t)
       ELSE pc' = [pc EXCEPT ![t] = "flush_send"] /\ UNCHANGED snap
  /\ UNCHANGED <<wvars, task, kont, tw, hvars>>
  /\ UNCHANGED <<pvars, nerr, fvars, tsvars, nvars>>

\* Lines 106-108: at "flush_send" the caller is blocked in `w.flushCh <- done`
\* until a processing goroutine receives (RunSelectFlush), and at "flush_wait"
\* in `<-done` until that goroutine closes done (RunFlushLoop).
FlushAcked(t) ==
  /\ pc[t] = "flush_acked"
  /\ Return(t)
  /\ UNCHANGED <<wvars, task, kont, tw, hvars>>
  /\ UNCHANGED <<pvars, nerr, fvars, tsvars, nvars>>

\* --------------------------------------------------------- Worker.run
\* The three cases of the select at lines 115-134; Go picks among the ready
\* cases at random, so each ready case is a step the goroutine may take.

\* One more delivery attempt is recorded; the record is kept only as long
\* as every attempt has been answered with a response.
Count(n) == IF n = Unreliable THEN Unreliable ELSE n + 1

\* Dequeue the head of w.queue and start the first Client.Send on it.
Dequeue(k, w, mode) ==
  /\ queue[w] # <<>>
  /\ queue' = [queue EXCEPT ![w] = Tail(@)]
  /\ task' = [task EXCEPT ![k].pc = "sending", ![k].mode = mode,
                          ![k].notice = Head(queue[w]), ![k].attempt = 0,
                          ![k].afterDone = doneClosed[w]]
  /\ sent' = Count(sent)
  /\ order' = {p \in order : p[2] # Head(queue[w])}

\* Lines 116-118, `case <-w.done`: drain() is entered and arms its context.
RunSelectDone(k) ==
  /\ task[k].pc = "select"
  /\ doneClosed[task[k].w]
  /\ task' = [task EXCEPT ![k].pc = "drain", ![k].mode = "drain"]
  /\ UNCHANGED <<wvars, tvars, hvars>>
  /\ UNCHANGED <<pvars, nerr, fvars, tsvars, nvars>>

\* Lines 120-121, `case notice := <-w.queue`: sendWithRetry(notice, 3).
RunSelectQueue(k) ==
  /\ task[k].pc = "select"
  /\ Dequeue(k, task[k].w, "run")
  /\ UNCHANGED <<running, doneClosed, wg, runningMu, tvars, accepted, timedOut>>
  /\ UNCHANGED <<pvars, nerr, fvars, tsvars, nvars>>

\* Line 123, `case done := <-w.flushCh`: the rendezvous with a Flush caller.
RunSelectFlush(k, t) ==
  /\ task[k].pc = "select"
  /\ pc[t] = "flush_send"
  /\ tw[t] = task[k].w
  /\ pc' = [pc EXCEPT ![t] = "flush_wait"]
  /\ task' = [task EXCEPT ![k].pc = "flush_loop", ![k].mode = "flush",
                          ![k].flushFor = t]
  /\ UNCHANGED <<wvars, kont, tw, snap, hvars>>
  /\ UNCHANGED <<pvars, nerr, fvars, tsvars, nvars>>

\* Lines 125-133: while the queue is not empty, dequeue and sendWithRetry;
\* then close(done), which releases the Flush caller.
RunFlushLoop(k) ==
  LET w == task[k].w IN
  /\ task[k].pc = "flush_loop"
  /\ IF Len(queue[w]) > 0
       THEN /\ Dequeue(k, w, "flush")
            /\ UNCHANGED pc
       ELSE /\ pc' = [pc EXCEPT ![task[k].flushFor] = "flush_acked"]
            /\ task' = [task EXCEPT ![k].pc = "select", ![k].mode = "run",
                                    ![k].flushFor = NoThread]
            /\ UNCHANGED <<queue, sent, order>>
  /\ UNCHANGED <<running, doneClosed, wg, runningMu, kont, tw, snap,
                 accepted, timedOut>>
  /\ UNCHANGED <<pvars, nerr, fvars, tsvars, nvars>>

\* ------------------------------------------------ Worker.sendWithRetry
\* Where the goroutine goes on when it is done with a notice.
Resume(mode) == CASE mode = "run" -> "select"
                  [] mode = "flush" -> "flush_loop"
                  [] mode = "drain" -> "drain"

\* A sendWithRetry that would go on retrying after the last attempt.
AfterSendNoLimit(resp, attempt) ==
  IF resp THEN "return" ELSE "sleep"

\* Lines 139-149 after Client.Send returned resp on attempt number `attempt`:
\* stop on a response, sleep before the next attempt, or give up.
AfterSend(resp, attempt) ==
  IF resp THEN "return"
  ELSE IF attempt < MaxRetries - 1 THEN "sleep"
  ELSE "return"

\* The factor of line 146, in milliseconds.
BaseDelay == 100

\* A delay that would count the attempts from one.
DelayFromOne(attempt) == (2 ^ (attempt + 1)) * BaseDelay

\* Line 146: time.Duration(1<<uint(attempt)) * 100 * time.Millisecond.
Delay(attempt) == (2 ^ attempt) * BaseDelay

\* A Client.Send in flight returns.  drain() (line 161) ignores the result.
\* Before the next attempt the goroutine sleeps for Delay(attempt).
SendReturns(k, outcome) ==
  LET resp == ClientSend(outcome)
      next == IF task[k].mode = "drain" THEN "return"
              ELSE AfterSend(resp, task[k].attempt) IN
  /\ task[k].pc = "sending"
  /\ sent' = IF resp THEN sent ELSE Unreliable
  /\ task' = [task EXCEPT
       ![k].pc = IF next = "sleep" THEN "backoff" ELSE Resume(task[k].mode),
       ![k].notice = IF next = "sleep" THEN @ ELSE NoNotice,
       ![k].attempt = IF next = "sleep" THEN @ ELSE 0,
       ![k].afterDone = IF next = "sleep" THEN @ ELSE FALSE,
       ![k].delay = IF next = "sleep" THEN Delay(task[k].attempt) ELSE 0]
  /\ order' = IF next = "sleep" THEN order
              ELSE {p \in order : p[1] # task[k].notice}
  /\ UNCHANGED <<wvars, tvars, accepted, timedOut>>
  /\ UNCHANGED <<pvars, nerr, fvars, tsvars, nvars>>

\* Lines 146-147 and 139-140: the sleep ends and the next attempt starts.
BackoffEnds(k) ==
  /\ task[k].pc = "backoff"
  /\ task' = [task EXCEPT ![k].pc = "sending", ![k].attempt = @ + 1,
                          ![k].delay = 0]
  /\ sent' = Count(sent)
  /\ UNCHANGED <<wvars, tvars, accepted, order, timedOut>>
  /\ UNCHANGED <<pvars, nerr, fvars, tsvars, nvars>>

\* ------------------------------------------------------- Worker.drain
\* Line 153: the context armed on entry expires ShutdownTimeout later.
DrainCtxExpires(k) ==
  /\ task[k].mode = "drain"
  /\ task[k].pc \in {"drain", "sending"}
  /\ ~task[k].ctxDone
  /\ task' = [task EXCEPT ![k].ctxDone = TRUE]
  /\ timedOut' = [timedOut EXCEPT ![task[k].w] = IF @ = "stop" THEN @ ELSE "drain"]
  /\ UNCHANGED <<wvars, tvars, accepted, order, sent>>
  /\ UNCHANGED <<pvars, nerr, fvars, tsvars, nvars>>

\* Lines 160-161, `case notice := <-w.queue`: one Client.Send, no retry.
DrainSend(k) ==
  /\ task[k].pc = "drain"
  /\ Dequeue(k, task[k].w, "drain")
  /\ UNCHANGED <<running, doneClosed, wg, runningMu, tvars, accepted, timedOut>>
  /\ UNCHANGED <<pvars, nerr, fvars, tsvars, nvars>>

\* drain() returns: `case <-ctx.Done()` (line 158) when the context has
\* expired, `default` (line 162) when no case is ready.
DrainMayReturn(ctxDone, q) == ctxDone \/ q = <<>>

\* Lines 158-159, 162-163 and the deferred wg.Done() of line 112: the
\* goroutine is gone.
DrainReturn(k) ==
  LET w == task[k].w IN
  /\ task[k].pc = "drain"
  /\ DrainMayReturn(task[k].ctxDone, queue[w])
  /\ task' = [task EXCEPT ![k] = NoTask]
  /\ wg' = [wg EXCEPT ![w] = @ - 1]
  /\ UNCHANGED <<running, queue, doneClosed, runningMu, tvars, hvars>>
  /\ UNCHANGED <<pvars, nerr, fvars, tsvars, nvars>>

\* ------------------------------------------- callers of a bare Worker
TheWorker == 1

\* A caller calls w.Start().  (A call that may spawn needs a goroutine of
\* the model's pool.)
CallStart(t) ==
  /\ pc[t] = "idle"
  /\ Cardinality(FreeTasks) > Cardinality({u \in Callers : InStart(u)})
  /\ Lock(t, TheWorker)
  /\ pc' = [pc EXCEPT ![t] = "start_locked"]
  /\ UNCHANGED <<running, queue, doneClosed, wg, task, kont, tw, snap, hvars>>
  /\ UNCHANGED <<pvars, nerr, fvars, tsvars, nvars>>

\* The notices of w for which Push has returned true.  (Two callers: a Push
\* that has enqueued and not returned holds the notice accepted last.)
PushedBefore(w) ==
  accepted[w] \ (IF \E u \in Callers : pc[u] = "push_true"
                   THEN {Cardinality(AllAccepted)} ELSE {})

\* A caller calls w.Stop(); it remembers the notices pushed by then.
CallStop(t) ==
  /\ pc[t] = "idle"
  /\ Lock(t, TheWorker)
  /\ pc' = [pc EXCEPT ![t] = "stop_locked"]
  /\ snap' = [snap EXCEPT ![t] = [q |-> PushedBefore(TheWorker), k |-> -1]]
  /\ UNCHANGED <<running, queue, doneClosed, wg, task, kont, tw, hvars>>
  /\ UNCHANGED <<pvars, nerr, fvars, tsvars, nvars>>

\* A caller calls w.Push(notice); it remembers the notices pushed by then
\* that are still queued or in a goroutine's hands.
\* (A call that may be accepted needs a notice of the model's pool: the bound
\* MaxNotices.)
CallPush(t) ==
  /\ pc[t] = "idle"
  /\ Cardinality(AllAccepted) + Cardinality({u \in Callers : InPush(u)}) < MaxNotices
  /\ Lock(t, TheWorker)
  /\ pc' = [pc EXCEPT ![t] = "push_locked"]
  /\ snap' = [snap EXCEPT ![t] =
       [q |-> PushedBefore(TheWorker) \cap Pending(TheWorker), k |-> -1]]
  /\ UNCHANGED <<running, queue, doneClosed, wg, task, kont, tw, hvars>>
  /\ UNCHANGED <<pvars, nerr, fvars, tsvars, nvars>>

\* A caller calls w.Flush(); it remembers the queue of that moment, and the
\* number of notices accepted so far when no Push is under way.
CallFlush(t) ==
  /\ pc[t] = "idle"
  /\ Lock(t, TheWorker)
  /\ pc' = [pc EXCEPT ![t] = "flush_locked"]
  /\ snap' = [snap EXCEPT ![t] =
       [q |-> Range(queue[TheWorker]),
        k |-> IF \E u \in Callers : InPush(u) THEN -1
              ELSE Cardinality(accepted[TheWorker])]]
  /\ UNCHANGED <<running, queue, doneClosed, wg, task, kont, tw, hvars>>
  /\ UNCHANGED <<pvars, nerr, fvars, tsvars, nvars>>

\* The process has died of a panic.
Crashed == \E t \in Callers : pc[t] = "panic"

\* The steps of a caller inside a Worker method.
MethodStep(t) ==
  \/ StartBody(t)
  \/ StopBody(t) \/ StopClose(t) \/ StopWaitDone(t) \/ StopWaitTimeout(t)
  \/ PushBody(t) \/ PushSelect(t) \/ PushReturn(t)
  \/ FlushBody(t) \/ FlushCheck(t) \/ FlushAcked(t)

CallerStep(t) ==
  \/ CallStart(t) \/ CallStop(t) \/ CallPush(t) \/ CallFlush(t)
  \/ MethodStep(t)

TaskStep(k) ==
  \/ RunSelectDone(k) \/ RunSelectQueue(k)
  \/ \E t \in Callers : RunSelectFlush(k, t)
  \/ RunFlushLoop(k)
  \/ \E o \in Outcomes : SendReturns(k, o)
  \/ BackoffEnds(k)
  \/ DrainCtxExpires(k) \/ DrainSend(k) \/ DrainReturn(k)

Next ==
  \/ \E t \in Callers : CallerStep(t)
  \/ \E k \in Tasks : TaskStep(k)

Spec == Init /\ [][Next]_vars

\* The Go scheduler runs every goroutine that can take a step: a caller
\* inside a Worker method goes on (a mutex is granted, a timer fires), and a
\* processing goroutine goes on (a Client.Send returns, a sleep ends, a
\* context expires).  Nothing obliges a caller to call a method.
Fairness ==
  /\ \A t \in Callers : WF_vars(MethodStep(t))
  /\ \A k \in Tasks : WF_vars(TaskStep(k))

\* The bare Worker under that scheduling.
SpecFair == Init /\ [][Next]_vars /\ Fairness

\* ---------------------------------------------------- package checkend
\* NewConfiguration, lines 141-196 of configuration.go: AsyncSend starts as
\* true (line 144) and is only ever set to true again (lines 194-196).
NewConfiguration(cfg) ==
  [set |-> TRUE,
   Enabled |-> cfg.Enabled,
   AsyncSend |-> IF cfg.AsyncSend THEN TRUE ELSE TRUE,
   IgnoredErrors |-> cfg.IgnoredErrors,
   BeforeNotify |-> cfg.BeforeNotify,
   APIKey |-> cfg.APIKey,
   Environment |-> cfg.Environment,
   FilterKeys |-> DefaultFilterKeys,
   SendRequestData |-> TRUE,
   SendEnvironment |-> FALSE,
   SendUserData |-> TRUE]

\* The Worker objects nothing has touched yet; NewWorker returns one of them.
FreshWorkers == {w \in Workers : /\ ~running[w] /\ ~doneClosed[w]
                                 /\ wg[w] = 0 /\ accepted[w] = {}}

NewWorker == CHOOSE w \in FreshWorkers : \A v \in FreshWorkers : w <= v

RLock(t) == mu' = [mu EXCEPT !.r = @ \cup {t}]
RUnlock(t) == mu' = [mu EXCEPT !.r = @ \ {t}]
MuUnlock == mu' = [mu EXCEPT !.w = NoThread]

\* A caller is inside Notify.
InNotify(t) ==
  \/ pc[t] \in {"notify_rlock", "notify_locked", "notify_build", "notify_push",
               "notify_sending", "notify_pushed", "notify_return"}
  \/ kont[t] = "notify_pushed"

\* shouldIgnore, lines 178-185 of checkend.go.
shouldIgnore(e) ==
  IF ~config.set THEN FALSE ELSE ShouldIgnore(config.IgnoredErrors, e)

\* buildNotice, lines 187-226, for a call that carries no context data and
\* no WithContext, WithUser or WithRequest option: the merged context is an
\* empty map, user and request are those of GetContextData.
buildNotice(e, o) ==
  Build(config, <<>>, e, EmptyMap, EmptyMap, EmptyMap, o.Fingerprint, o.Tags)

\* The loop of lines 233-237 from the i-th callback on: the callbacks
\* called, and whether all of them returned true.
RECURSIVE runCallbacks(_, _)
runCallbacks(callbacks, i) ==
  IF i > Len(callbacks) THEN [called |-> <<>>, ok |-> TRUE]
  ELSE IF ~callbacks[i] THEN [called |-> <<i>>, ok |-> FALSE]
  ELSE LET rest == runCallbacks(callbacks, i + 1)
       IN [called |-> <<i>> \o rest.called, ok |-> rest.ok]

\* runBeforeNotify calling every callback whatever the others return.
runBeforeNotifyAll(cfg) ==
  [called |-> [i \in DOMAIN cfg.BeforeNotify |-> i],
   ok |-> \A i \in DOMAIN cfg.BeforeNotify : cfg.BeforeNotify[i]]

\* runBeforeNotify, lines 228-240.
runBeforeNotify(cfg) ==
  IF ~cfg.set \/ Len(cfg.BeforeNotify) = 0
    THEN [called |-> <<>>, ok |-> TRUE]
    ELSE runCallbacks(cfg.BeforeNotify, 1)

\* The response of the API to a notice it has created, and the one
\* NotifySync makes up in testing mode (line 137).
CreatedResponse == APIResponse(1, 1)
TestingResponse == APIResponse(0, 0)

\* Configure, lines 40-47: under mu.Lock() the configuration is resolved and,
\* for an enabled asynchronous one, a new worker is made and worker.Start()
\* is entered (nobody else holds the mutex of a new worker).
Configure(t, cfg) ==
  LET c == NewConfiguration(cfg) IN
  /\ pc[t] = "idle"
  /\ mu.w = NoThread /\ mu.r = {}
  /\ mu' = [mu EXCEPT !.w = t]
  /\ config' = c
  /\ IF c.AsyncSend /\ c.Enabled
       THEN /\ FreshWorkers # {}
            /\ FreeTasks # {}
            /\ worker' = NewWorker
            /\ Lock(t, NewWorker)
            /\ pc' = [pc EXCEPT ![t] = "start_locked"]
            /\ tw' = [tw EXCEPT ![t] = NewWorker]
            /\ kont' = [kont EXCEPT ![t] = "configure_started"]
       ELSE /\ pc' = [pc EXCEPT ![t] = "configure_started"]
            /\ UNCHANGED <<worker, runningMu, tw, kont>>
  /\ UNCHANGED <<running, queue, doneClosed, wg, task, snap, hvars, initialized, nerr, fvars, tsvars, nvars>>

\* Configure, lines 50-51 and the deferred mu.Unlock().
ConfigureDone(t) ==
  /\ pc[t] = "configure_started"
  /\ initialized' = TRUE
  /\ MuUnlock
  /\ pc' = [pc EXCEPT ![t] = "idle"]
  /\ kont' = [kont EXCEPT ![t] = "idle"]
  /\ UNCHANGED <<wvars, task, tw, snap, hvars, config, worker, nerr, fvars, tsvars, nvars>>

\* The Configure of a program that makes one Worker at most: it configures
\* an enabled SDK once.
ConfigureOnce(t, cfg) ==
  /\ NewConfiguration(cfg).Enabled => FreshWorkers = Workers
  /\ Configure(t, cfg)

\* How many notices the testing mode captures before the program clears
\* them.
MaxCaptured == 2

\* A call in testing mode needs room in the model's capture list.
CaptureRoom == testingEnabled => Len(testingNotices) < MaxCaptured

\* A caller calls Notify (line 62) with an error and options.  (A call that
\* may reach the queue needs a notice of the model's pool.)
Notify(t, e, o) ==
  /\ pc[t] = "idle"
  /\ Cardinality(AllAccepted) + Cardinality({u \in Callers : InNotify(u)}) < MaxNotices
  /\ CaptureRoom
  /\ nerr' = [nerr EXCEPT ![t] = Call(e, o)]
  /\ pc' = [pc EXCEPT ![t] = "notify_rlock"]
  /\ UNCHANGED <<wvars, task, kont, tw, snap, hvars, pvars, fvars, tsvars, nvars>>

\* Line 68, mu.RLock(): blocks while a writer holds mu.
NotifyRLock(t) ==
  /\ pc[t] = "notify_rlock"
  /\ mu.w = NoThread
  /\ RLock(t)
  /\ pc' = [pc EXCEPT ![t] = "notify_locked"]
  /\ UNCHANGED <<wvars, task, kont, tw, snap, hvars, config, worker, initialized, nerr, fvars, tsvars, nvars>>

\* NotifyWithContext without the check of lines 76-78.
NotifyWithContextNoIgnore(t) ==
  /\ pc[t] = "notify_locked"
  /\ IF ~initialized \/ ~config.set \/ ~config.Enabled
       THEN /\ pc' = [pc EXCEPT ![t] = "notify_return"]
            /\ nerr' = [nerr EXCEPT ![t].state = "disabled"]
       ELSE /\ pc' = [pc EXCEPT ![t] = "notify_build"]
            /\ UNCHANGED nerr
  /\ UNCHANGED <<wvars, task, kont, tw, snap, hvars, pvars, fvars, tsvars, nvars>>

\* NotifyWithContext without the check of lines 71-73.
NotifyWithContextNoEnabled(t) ==
  /\ pc[t] = "notify_locked"
  /\ IF ~initialized \/ ~config.set
       THEN /\ pc' = [pc EXCEPT ![t] = "notify_return"]
            /\ nerr' = [nerr EXCEPT ![t].state = "disabled"]
       ELSE IF shouldIgnore(nerr[t].err)
       THEN /\ pc' = [pc EXCEPT ![t] = "notify_return"]
            /\ nerr' = [nerr EXCEPT ![t].state = "ignored"]
       ELSE /\ pc' = [pc EXCEPT ![t] = "notify_build"]
            /\ UNCHANGED nerr
  /\ UNCHANGED <<wvars, task, kont, tw, snap, hvars, pvars, fvars, tsvars, nvars>>

\* Lines 71-78: Notify returns when the SDK is not configured or disabled,
\* and when the error is to be ignored; otherwise it goes on to build.
NotifyWithContext(t) ==
  /\ pc[t] = "notify_locked"
  /\ IF ~initialized \/ ~config.set \/ ~config.Enabled
       THEN /\ pc' = [pc EXCEPT ![t] = "notify_return"]
            /\ nerr' = [nerr EXCEPT ![t].state = "disabled"]
       ELSE IF shouldIgnore(nerr[t].err)
       THEN /\ pc' = [pc EXCEPT ![t] = "notify_return"]
            /\ nerr' = [nerr EXCEPT ![t].state = "ignored"]
       ELSE /\ pc' = [pc EXCEPT ![t] = "notify_build"]
            /\ UNCHANGED nerr
  /\ UNCHANGED <<wvars, task, kont, tw, snap, hvars, pvars, fvars, tsvars, nvars>>

\* NotifyWithContext, lines 81-102, sending whatever the testing mode is.
NotifyBuildNoCapture(t) ==
  LET n == buildNotice(nerr[t].err, nerr[t].opts)
      r == runBeforeNotify(config)
      call == [nerr[t] EXCEPT !.notice = n, !.hooks = r.called]
  IN
  /\ pc[t] = "notify_build"
  /\ IF ~r.ok
       THEN /\ pc' = [pc EXCEPT ![t] = "notify_return"]
            /\ nerr' = [nerr EXCEPT ![t] = [call EXCEPT !.state = "halted"]]
            /\ UNCHANGED <<tw, kont, snap, testingNotices>>
       ELSE IF config.AsyncSend /\ worker # NilWorker
       THEN /\ pc' = [pc EXCEPT ![t] = "notify_push"]
            /\ nerr' = [nerr EXCEPT ![t] = [call EXCEPT !.state = "pushing"]]
            /\ tw' = [tw EXCEPT ![t] = worker]
            /\ kont' = [kont EXCEPT ![t] = "notify_pushed"]
            /\ snap' = [snap EXCEPT ![t] =
                 [q |-> PushedBefore(worker) \cap Pending(worker), k |-> -1]]
            /\ UNCHANGED testingNotices
       ELSE /\ pc' = [pc EXCEPT ![t] = "notify_sending"]
            /\ nerr' = [nerr EXCEPT ![t] = [call EXCEPT !.state = "sending"]]
            /\ UNCHANGED <<tw, kont, snap, testingNotices>>
  /\ UNCHANGED <<wvars, task, hvars, pvars, fvars, testingEnabled, nvars>>

\* Lines 81-102: the notice is built and the BeforeNotify callbacks run;
\* a false one ends the call.  In testing mode the notice is kept in
\* testingNotices; otherwise it goes to the worker, or to a Client on the
\* caller's goroutine.
NotifyBuild(t) ==
  LET n == buildNotice(nerr[t].err, nerr[t].opts)
      r == runBeforeNotify(config)
      call == [nerr[t] EXCEPT !.notice = n, !.hooks = r.called]
  IN
  /\ pc[t] = "notify_build"
  /\ IF ~r.ok
       THEN /\ pc' = [pc EXCEPT ![t] = "notify_return"]
            /\ nerr' = [nerr EXCEPT ![t] = [call EXCEPT !.state = "halted"]]
            /\ UNCHANGED <<tw, kont, snap, testingNotices>>
       ELSE IF testingEnabled
       THEN /\ testingNotices' = Append(testingNotices, n)
            /\ pc' = [pc EXCEPT ![t] = "notify_return"]
            /\ nerr' = [nerr EXCEPT ![t] = [call EXCEPT !.state = "captured"]]
            /\ UNCHANGED <<tw, kont, snap>>
       ELSE IF config.AsyncSend /\ worker # NilWorker
       THEN /\ pc' = [pc EXCEPT ![t] = "notify_push"]
            /\ nerr' = [nerr EXCEPT ![t] = [call EXCEPT !.state = "pushing"]]
            /\ tw' = [tw EXCEPT ![t] = worker]
            /\ kont' = [kont EXCEPT ![t] = "notify_pushed"]
            /\ snap' = [snap EXCEPT ![t] =
                 [q |-> PushedBefore(worker) \cap Pending(worker), k |-> -1]]
            /\ UNCHANGED testingNotices
       ELSE /\ pc' = [pc EXCEPT ![t] = "notify_sending"]
            /\ nerr' = [nerr EXCEPT ![t] = [call EXCEPT !.state = "sending"]]
            /\ UNCHANGED <<tw, kont, snap, testingNotices>>
  /\ UNCHANGED <<wvars, task, hvars, pvars, fvars, testingEnabled, nvars>>

\* Line 98, worker.Push(notice), entered when the worker's mutex is free.
NotifyPush(t) ==
  /\ pc[t] = "notify_push"
  /\ Lock(t, tw[t])
  /\ pc' = [pc EXCEPT ![t] = "push_locked"]
  /\ UNCHANGED <<running, queue, doneClosed, wg, task, kont, tw, snap, hvars, pvars, nerr, fvars, tsvars, nvars>>

\* Lines 100-101: the Client.Send made on the caller's goroutine returns;
\* its result is dropped.
NotifySend(t, outcome) ==
  /\ pc[t] = "notify_sending"
  /\ pc' = [pc EXCEPT ![t] = "notify_return"]
  /\ nerr' = [nerr EXCEPT ![t].attempts = @ + 1, ![t].outcome = outcome,
                ![t].state = "sent"]
  /\ UNCHANGED <<wvars, task, kont, tw, snap, hvars, pvars, fvars, tsvars, nvars>>

\* Notify returns, from one of its return statements or after worker.Push:
\* the deferred mu.RUnlock() runs.
NotifyDone(t) ==
  /\ pc[t] \in {"notify_return", "notify_pushed"}
  /\ RUnlock(t)
  /\ pc' = [pc EXCEPT ![t] = "idle"]
  /\ kont' = [kont EXCEPT ![t] = "idle"]
  /\ nerr' = [nerr EXCEPT ![t] = IF @.state = "ignored" THEN Ignored(@.err) ELSE NoCall]
  /\ UNCHANGED <<wvars, task, tw, snap, hvars, config, worker, initialized, fvars, tsvars, nvars>>

\* A caller calls NotifySync (line 106) with an error and options.
NotifySync(t, e, o) ==
  /\ pc[t] = "idle"
  /\ CaptureRoom
  /\ nerr' = [nerr EXCEPT ![t] = Call(e, o)]
  /\ pc' = [pc EXCEPT ![t] = "sync_rlock"]
  /\ UNCHANGED <<wvars, task, kont, tw, snap, hvars, pvars, fvars, tsvars, nvars>>

\* Line 112, mu.RLock().
NotifySyncRLock(t) ==
  /\ pc[t] = "sync_rlock"
  /\ mu.w = NoThread
  /\ RLock(t)
  /\ pc' = [pc EXCEPT ![t] = "sync_locked"]
  /\ UNCHANGED <<wvars, task, kont, tw, snap, hvars, config, worker, initialized, nerr, fvars, tsvars, nvars>>

\* Lines 115-122: the same checks as Notify's, returning nil.
NotifySyncWithContext(t) ==
  /\ pc[t] = "sync_locked"
  /\ IF ~initialized \/ ~config.set \/ ~config.Enabled
       THEN /\ pc' = [pc EXCEPT ![t] = "sync_return"]
            /\ nerr' = [nerr EXCEPT ![t].state = "disabled", ![t].resp = NilResponse]
       ELSE IF shouldIgnore(nerr[t].err)
       THEN /\ pc' = [pc EXCEPT ![t] = "sync_return"]
            /\ nerr' = [nerr EXCEPT ![t].state = "ignored", ![t].resp = NilResponse]
       ELSE /\ pc' = [pc EXCEPT ![t] = "sync_build"]
            /\ UNCHANGED nerr
  /\ UNCHANGED <<wvars, task, kont, tw, snap, hvars, pvars, fvars, tsvars, nvars>>

\* Lines 125-141: the notice is built and the callbacks run; a false one
\* returns nil.  In testing mode the notice is kept and an empty response
\* returned; otherwise a Client sends the notice on the caller's goroutine.
NotifySyncBuild(t) ==
  LET n == buildNotice(nerr[t].err, nerr[t].opts)
      r == runBeforeNotify(config)
      call == [nerr[t] EXCEPT !.notice = n, !.hooks = r.called]
  IN
  /\ pc[t] = "sync_build"
  /\ IF ~r.ok
       THEN /\ pc' = [pc EXCEPT ![t] = "sync_return"]
            /\ nerr' = [nerr EXCEPT ![t] = [call EXCEPT !.state = "halted", !.resp = NilResponse]]
            /\ UNCHANGED testingNotices
       ELSE IF testingEnabled
       THEN /\ testingNotices' = Append(testingNotices, n)
            /\ pc' = [pc EXCEPT ![t] = "sync_return"]
            /\ nerr' = [nerr EXCEPT ![t] = [call EXCEPT !.state = "captured", !.resp = TestingResponse]]
       ELSE /\ pc' = [pc EXCEPT ![t] = "sync_sending"]
            /\ nerr' = [nerr EXCEPT ![t] = [call EXCEPT !.state = "sending"]]
            /\ UNCHANGED testingNotices
  /\ UNCHANGED <<wvars, task, kont, tw, snap, hvars, pvars, fvars, testingEnabled, nvars>>

\* NotifySync sending once more after an attempt that failed.
NotifySyncSendRetrying(t, outcome) ==
  /\ pc[t] = "sync_sending"
  /\ IF ClientSend(outcome) \/ nerr[t].attempts >= 1
       THEN /\ pc' = [pc EXCEPT ![t] = "sync_return"]
            /\ nerr' = [nerr EXCEPT ![t].attempts = @ + 1, ![t].outcome = outcome,
                          ![t].state = "sent",
                          ![t].resp = IF ClientSend(outcome) THEN CreatedResponse
                                      ELSE NilResponse]
       ELSE /\ nerr' = [nerr EXCEPT ![t].attempts = @ + 1, ![t].outcome = outcome]
            /\ UNCHANGED pc
  /\ UNCHANGED <<wvars, task, kont, tw, snap, hvars, pvars, fvars, tsvars, nvars>>

\* Line 141: the one client.Send returns, and its result is what NotifySync
\* returns.
NotifySyncSend(t, outcome) ==
  /\ pc[t] = "sync_sending"
  /\ pc' = [pc EXCEPT ![t] = "sync_return"]
  /\ nerr' = [nerr EXCEPT ![t].attempts = @ + 1, ![t].outcome = outcome,
                ![t].state = "sent",
                ![t].resp = IF ClientSend(outcome) THEN CreatedResponse
                            ELSE NilResponse]
  /\ UNCHANGED <<wvars, task, kont, tw, snap, hvars, pvars, fvars, tsvars, nvars>>

\* NotifySync returns: the deferred mu.RUnlock() runs.
NotifySyncDone(t) ==
  /\ pc[t] = "sync_return"
  /\ RUnlock(t)
  /\ pc' = [pc EXCEPT ![t] = "idle"]
  /\ nerr' = [nerr EXCEPT ![t] = IF @.state = "ignored" THEN Ignored(@.err) ELSE NoCall]
  /\ UNCHANGED <<wvars, task, kont, tw, snap, hvars, config, worker, initialized, fvars, tsvars, nvars>>

\* Flush, lines 146-150: worker is read under mu.RLock(); nil returns.
Flush(t) ==
  /\ pc[t] = "idle"
  /\ mu.w = NoThread
  /\ IF worker # NilWorker
       THEN /\ pc' = [pc EXCEPT ![t] = "pkg_flush_call"]
            /\ tw' = [tw EXCEPT ![t] = worker]
       ELSE UNCHANGED <<pc, tw>>
  /\ UNCHANGED <<wvars, task, kont, snap, hvars, pvars, nerr, fvars, tsvars, nvars>>

\* Line 151, w.Flush(), entered when the worker's mutex is free; the caller
\* remembers what CallFlush remembers.
FlushCall(t) ==
  /\ pc[t] = "pkg_flush_call"
  /\ Lock(t, tw[t])
  /\ pc' = [pc EXCEPT ![t] = "flush_locked"]
  /\ snap' = [snap EXCEPT ![t] =
       [q |-> Range(queue[tw[t]]),
        k |-> IF \E u \in Callers : InPush(u) THEN -1
              ELSE Cardinality(accepted[tw[t]])]]
  /\ UNCHANGED <<running, queue, doneClosed, wg, task, kont, tw, hvars, pvars, nerr, fvars, tsvars, nvars>>

\* Stop, lines 157-160: mu.Lock() is taken, and kept until Stop returns.
Stop(t) ==
  /\ pc[t] = "idle"
  /\ mu.w = NoThread /\ mu.r = {}
  /\ mu' = [mu EXCEPT !.w = t]
  /\ IF worker # NilWorker
       THEN /\ pc' = [pc EXCEPT ![t] = "pkg_stop_call"]
            /\ tw' = [tw EXCEPT ![t] = worker]
            /\ kont' = [kont EXCEPT ![t] = "pkg_stop_done"]
       ELSE /\ pc' = [pc EXCEPT ![t] = "pkg_stop_done"]
            /\ UNCHANGED <<tw, kont>>
  /\ UNCHANGED <<wvars, task, snap, hvars, config, worker, initialized, nerr, fvars, tsvars, nvars>>

\* Line 161, worker.Stop(), entered when the worker's mutex is free.
StopCall(t) ==
  /\ pc[t] = "pkg_stop_call"
  /\ Lock(t, tw[t])
  /\ pc' = [pc EXCEPT ![t] = "stop_locked"]
  /\ snap' = [snap EXCEPT ![t] = [q |-> PushedBefore(tw[t]), k |-> -1]]
  /\ UNCHANGED <<running, queue, doneClosed, wg, task, kont, tw, hvars, pvars, nerr, fvars, tsvars, nvars>>

\* Line 162 and the deferred mu.Unlock(): worker is nil when Stop returns.
StopDone(t) ==
  /\ pc[t] = "pkg_stop_done"
  /\ worker' = NilWorker
  /\ MuUnlock
  /\ pc' = [pc EXCEPT ![t] = "idle"]
  /\ kont' = [kont EXCEPT ![t] = "idle"]
  /\ UNCHANGED <<wvars, task, tw, snap, hvars, config, initialized, nerr, fvars, tsvars, nvars>>

\* Reset, line 168: Stop() is called and takes mu.Lock() (lines 157-160).
Reset(t) ==
  /\ pc[t] = "idle"
  /\ mu.w = NoThread /\ mu.r = {}
  /\ mu' = [mu EXCEPT !.w = t]
  /\ IF worker # NilWorker
       THEN /\ pc' = [pc EXCEPT ![t] = "pkg_stop_call"]
            /\ tw' = [tw EXCEPT ![t] = worker]
            /\ kont' = [kont EXCEPT ![t] = "reset_stopped"]
       ELSE /\ pc' = [pc EXCEPT ![t] = "reset_stopped"]
            /\ UNCHANGED <<tw, kont>>
  /\ UNCHANGED <<wvars, task, snap, hvars, config, worker, initialized, nerr, fvars, tsvars, nvars>>

\* The Stop() that Reset called returns (line 162 and the deferred
\* mu.Unlock()).
ResetStopDone(t) ==
  /\ pc[t] = "reset_stopped"
  /\ worker' = NilWorker
  /\ MuUnlock
  /\ pc' = [pc EXCEPT ![t] = "reset_lock"]
  /\ kont' = [kont EXCEPT ![t] = "idle"]
  /\ UNCHANGED <<wvars, task, tw, snap, hvars, config, initialized, nerr, fvars, tsvars, nvars>>

\* Reset, lines 170-173: under mu.Lock() the configuration is dropped.
ResetBody(t) ==
  /\ pc[t] = "reset_lock"
  /\ mu.w = NoThread /\ mu.r = {}
  /\ config' = NilConfig
  /\ initialized' = FALSE
  /\ pc' = [pc EXCEPT ![t] = "reset_clear"]
  /\ UNCHANGED <<wvars, task, kont, tw, snap, hvars, worker, mu, nerr, fvars, tsvars, nvars>>

\* Reset, line 175: ClearTesting() (testing.go lines 30-35).
ResetClear(t) ==
  /\ pc[t] = "reset_clear"
  /\ testingEnabled' = FALSE
  /\ testingNotices' = <<>>
  /\ pc' = [pc EXCEPT ![t] = "idle"]
  /\ UNCHANGED <<wvars, task, kont, tw, snap, hvars, pvars, nerr, fvars, nvars>>

\* SetupTesting, testing.go lines 14-19.
SetupTesting(t) ==
  /\ pc[t] = "idle"
  /\ testingEnabled' = TRUE
  /\ testingNotices' = <<>>
  /\ UNCHANGED <<wvars, task, tvars, hvars, pvars, nerr, fvars, nvars>>

\* TeardownTesting, testing.go lines 22-27.
TeardownTesting(t) ==
  /\ pc[t] = "idle"
  /\ testingEnabled' = FALSE
  /\ testingNotices' = <<>>
  /\ UNCHANGED <<wvars, task, tvars, hvars, pvars, nerr, fvars, nvars>>

PackageStep(t) ==
  \/ \E cfg \in Configs : ConfigureOnce(t, cfg)
  \/ ConfigureDone(t)
  \/ \E e \in NotifyErrors : Notify(t, e, NoOptions)
  \/ NotifyRLock(t) \/ NotifyWithContext(t) \/ NotifyBuild(t)
  \/ NotifyPush(t)
  \/ \E o \in Outcomes : NotifySend(t, o)
  \/ NotifyDone(t)
  \/ \E e \in NotifyErrors : NotifySync(t, e, NoOptions)
  \/ NotifySyncRLock(t) \/ NotifySyncWithContext(t) \/ NotifySyncBuild(t)
  \/ \E o \in Outcomes : NotifySyncSend(t, o)
  \/ NotifySyncDone(t)
  \/ Flush(t) \/ FlushCall(t)
  \/ Stop(t) \/ StopCall(t) \/ StopDone(t)
  \/ MethodStep(t)

NextPkg ==
  \/ \E t \in Callers : PackageStep(t)
  \/ \E k \in Tasks : TaskStep(k)

\* A program that uses the SDK through the package functions only.
SpecPkg == Init /\ [][NextPkg]_vars

\* ------------------- a program using the package from one goroutine
\* The goroutine that calls the package functions, one call after the
\* other, with callbacks, options, the testing mode and Reset.
ApiCallers == {1}

\* The BeforeNotify lists the program configures, and the options it
\* gives to Notify and NotifySync.
HookLists == {<<>>, <<TRUE>>, <<FALSE>>, <<TRUE, FALSE, TRUE>>}
ApiConfigs == [Enabled : BOOLEAN, AsyncSend : BOOLEAN, IgnoredErrors : IgnoredErrorLists,
               BeforeNotify : HookLists, APIKey : {"key"}, Environment : {"production"}]
ApiOptions == {NoOptions, Options("custom-fp", <<"tag1", "tag2">>)}

ApiStep(t) ==
  \/ \E cfg \in ApiConfigs : ConfigureOnce(t, cfg)
  \/ ConfigureDone(t)
  \/ \E e \in NotifyErrors, o \in ApiOptions : Notify(t, e, o)
  \/ NotifyRLock(t) \/ NotifyWithContext(t) \/ NotifyBuild(t)
  \/ NotifyPush(t)
  \/ \E o \in Outcomes : NotifySend(t, o)
  \/ NotifyDone(t)
  \/ \E e \in NotifyErrors, o \in ApiOptions : NotifySync(t, e, o)
  \/ NotifySyncRLock(t) \/ NotifySyncWithContext(t) \/ NotifySyncBuild(t)
  \/ \E o \in Outcomes : NotifySyncSend(t, o)
  \/ NotifySyncDone(t)
  \/ Flush(t) \/ FlushCall(t)
  \/ Stop(t) \/ StopCall(t) \/ StopDone(t)
  \/ Reset(t) \/ ResetStopDone(t) \/ ResetBody(t) \/ ResetClear(t)
  \/ SetupTesting(t) \/ TeardownTesting(t)
  \/ MethodStep(t)

NextApi ==
  \/ \E t \in ApiCallers : ApiStep(t)
  \/ \E k \in Tasks : TaskStep(k)

SpecApi == Init /\ [][NextApi]_vars

\* -------------------- a program that configures the SDK more than once
\* One goroutine calls Configure, Notify, Flush, Stop and Reset in any
\* order; every Configure of an enabled SDK makes a new Worker.
SetupConfigs == [Enabled : BOOLEAN, AsyncSend : {TRUE}, IgnoredErrors : {<<>>},
                 BeforeNotify : {<<>>}, APIKey : {"key"}, Environment : {"production"}]

SetupStep(t) ==
  \/ \E cfg \in SetupConfigs : Configure(t, cfg)
  \/ ConfigureDone(t)
  \/ Notify(t, Error("*app.customError", "test error"), NoOptions)
  \/ NotifyRLock(t) \/ NotifyWithContext(t) \/ NotifyBuild(t)
  \/ NotifyPush(t)
  \/ \E o \in Outcomes : NotifySend(t, o)
  \/ NotifyDone(t)
  \/ Flush(t) \/ FlushCall(t)
  \/ Stop(t) \/ StopCall(t) \/ StopDone(t)
  \/ Reset(t) \/ ResetStopDone(t) \/ ResetBody(t) \/ ResetClear(t)
  \/ MethodStep(t)

NextSetup ==
  \/ \E t \in ApiCallers : SetupStep(t)
  \/ \E k \in Tasks : TaskStep(k)

SpecSetup == Init /\ [][NextSetup]_vars

\* ------------------------------------- a program using package filters
\* How deep the input's maps are nested.
MaxNest == 12

RECURSIVE Repeat(_, _)
Repeat(s, n) ==
  IF n = 0 THEN ""
  ELSE IF n % 2 = 0 THEN LET half == Repeat(s, n \div 2) IN half \o half
  ELSE s \o Repeat(s, n - 1)

\* A string one character longer than truncateString lets through.
LongString == Repeat("s", maxStringLen + 1)

\* The filter keys a program configures, the keys of its data and the
\* values it stores under them.
FilterKeySets == << <<"password", "token">>, <<"Secret", "PASSWORD">>, <<>> >>
DataKeys == <<"password", "PassWord", "user_password_hash", "Auth-Token", "username">>
DataValues ==
  << String("s3cret"), String(LongString), Number(7), Bool(TRUE), Nil,
     Stringer("s3cret"), Stringer(LongString), Opaque,
     Map("pin" :> String("s3cret")),
     Slice(<<String("s3cret"), Map("pin" :> Number(7))>>) >>

\* A map nested d levels deep in maps, or in slices held by maps.
Wrap(v, kind) ==
  IF kind = "map" THEN Map("child" :> v @@ "note" :> String("n"))
                  ELSE Map("items" :> Slice(<<v>>))

RECURSIVE Nest(_, _, _)
Nest(v, d, kind) == IF d = 0 THEN v ELSE Wrap(Nest(v, d - 1, kind), kind)

\* Maps that hold themselves: directly, and through a slice.
CyclicHeaps(key, value) ==
  << <<Map("self" :> Ref(1) @@ key :> value)>>,
     <<Map("list" :> Ref(2) @@ key :> value), Slice(<<Ref(1), String("x")>>)>> >>

\* The pattern lists a program configures and the errors it reports.
PatternLists ==
  << <<>>,
     <<StringPattern(".*timeout.*")>>,
     <<StringPattern("customError")>>,
     <<StringPattern(".*Error")>>,
     <<StringPattern("context.Canceled"), StringPattern("*x")>>,
     <<TypePattern("net.Error")>>,
     <<ErrorPattern(Error("*app.customError", "test"))>>,
     <<ErrorPattern(Error("*app.customError", "another"))>>,
     <<StringPattern("customError"), StringPattern("anotherError")>>,
     <<ErrorPattern(Error("*app.customError", "test")), StringPattern(".*timeout.*")>> >>
ErrorTypes ==
  << "*errors.errorString", "*app.customError", "app.customError",
     "*app.anotherError", "*app.TimeoutError", "*net.timeoutError",
     "*app.RequestTimeout", "*net.OpError", "app.ErrTimeoutExceeded" >>
Messages == <<"test", "another">>

InitFilters ==
  /\ ProcessStart
  /\ NoticeIdle
  /\ out = Nil /\ ignored = FALSE
  /\ \/ /\ fpc = "sanitize"
        /\ patterns = <<>> /\ err = NilError
        /\ \E i \in DOMAIN FilterKeySets : filterKeys = FilterKeySets[i]
        /\ \E k \in DOMAIN DataKeys, v \in DOMAIN DataValues :
             LET base == Map(DataKeys[k] :> DataValues[v] @@ "name" :> String("bob")) IN
             \/ heap = <<>> /\ data = Nil
             \/ /\ heap = <<>>
                /\ \E d \in 0..MaxNest, kind \in {"map", "slice"} :
                     data = Nest(base, d, kind)
             \/ /\ data = Ref(1)
                /\ \E c \in DOMAIN CyclicHeaps(DataKeys[k], DataValues[v]) :
                     heap = CyclicHeaps(DataKeys[k], DataValues[v])[c]
     \/ /\ fpc = "ignore"
        /\ filterKeys = <<>> /\ heap = <<>> /\ data = Nil
        /\ \E i \in DOMAIN PatternLists : patterns = PatternLists[i]
        /\ \/ err = NilError
           \/ \E i \in DOMAIN ErrorTypes, j \in DOMAIN Messages :
                err = Error(ErrorTypes[i], Messages[j])

\* The program calls Filter on its data ...
FilterCall ==
  /\ fpc = "sanitize"
  /\ out' = Filter(NewSanitizeFilter(filterKeys), heap, data)
  /\ fpc' = "filtered"
  /\ UNCHANGED <<wvars, task, tvars, hvars, pvars, nerr, tsvars, nvars>>
  /\ UNCHANGED <<filterKeys, heap, data, patterns, err, ignored>>

\* ... and once more on what Filter returned (a map of its own, held by
\* nothing else).
FilterAgain ==
  /\ fpc = "filtered"
  /\ out' = Filter(NewSanitizeFilter(filterKeys), <<>>, out)
  /\ fpc' = "refiltered"
  /\ UNCHANGED <<wvars, task, tvars, hvars, pvars, nerr, tsvars, nvars>>
  /\ UNCHANGED <<filterKeys, heap, data, patterns, err, ignored>>

\* What the program makes of one of its maps or slices when it changes it:
\* every entry is overwritten, and a map gets an entry more.
Changed(v) ==
  CASE v.kind = "map" ->
         Map(("later" :> String("changed")) @@ [x \in DOMAIN v.m |-> String("changed")])
    [] v.kind = "slice" -> Slice([i \in DOMAIN v.m |-> String("changed")])
    [] OTHER -> v

\* After the call of Filter the program changes the data it had passed:
\* the top map and every map and slice of its heap.
DataChange ==
  /\ fpc = "filtered"
  /\ data.kind # "nil"
  /\ heap' = [i \in DOMAIN heap |-> Changed(heap[i])]
  /\ data' = Changed(data)
  /\ fpc' = "changed"
  /\ UNCHANGED <<wvars, task, tvars, hvars, pvars, nerr, tsvars, nvars>>
  /\ UNCHANGED <<filterKeys, out, patterns, err, ignored>>

\* The program asks an IgnoreFilter about an error.
ShouldIgnoreCall ==
  /\ fpc = "ignore"
  /\ ignored' = ShouldIgnore(patterns, err)
  /\ fpc' = "decided"
  /\ UNCHANGED <<wvars, task, tvars, hvars, pvars, nerr, tsvars, nvars>>
  /\ UNCHANGED <<filterKeys, heap, data, out, patterns, err>>

NextFilters ==
  \/ FilterCall
  \/ FilterAgain
  \/ DataChange
  \/ ShouldIgnoreCall

SpecFilters == InitFilters /\ [][NextFilters]_vars

\* ------------------------- a program using Build, ToPayload and Send
\* A message one character longer than extractMessage lets through.
LongMessage == Repeat("m", maxMessageLength + 1)

\* The resolved configurations, process environment and arguments of a
\* program that builds notices.
BuilderConfigs ==
  {BuilderConfig("key", "production", <<"password", "credit_card">>, r, e, u) :
     r \in BOOLEAN, e \in BOOLEAN, u \in BOOLEAN}
Environ ==
  ("HOME" :> "/root") @@ ("API_KEY" :> "s3cret") @@ ("DB_PASSWORD" :> "s3cret")
    @@ ("CREDIT_CARD" :> "4111")
BuildErrors ==
  {NilError, Error("*app.customError", "test error"), Error("*errors.errorString", LongMessage)}
BuildContexts ==
  {Nil, EmptyMap, Map("order" :> Number(7)),
   Map("environment" :> String("staging") @@ "password" :> String("s3cret")),
   Map("db" :> Map("Password" :> String("s3cret") @@ "port" :> Number(5432))
       @@ "cards" :> Slice(<<Map("credit_card_no" :> String("4111"))>>))}
BuildUsers == {Nil, EmptyMap, Map("id" :> Number(1) @@ "password" :> String("s3cret"))}
BuildRequests == {Nil, EmptyMap, Map("url" :> String("/orders"))}
BuildOptions == {NoOptions, Options("custom-fp", <<"tag1", "tag2">>)}

\* The Notices a program makes itself, the API keys and the fates of the
\* HTTP request of a program that sends.
MadeNotices ==
  {Notice("app.customError", "test error", "", <<>>, EmptyMap, Nil, Nil, "production"),
   Notice("app.customError", "test error", "fp", <<"tag1">>,
          Map("environment" :> String("staging") @@ "order" :> Number(7)),
          EmptyMap, Map("id" :> Number(1)), "production"),
   Notice("app.customError", "test error", "", <<>>, Map("conn" :> Opaque), Nil, Nil, "production")}
APIKeys == {"", "key"}
Statuses == {200, 201, 202, 204, 301, 400, 401, 404, 422, 429, 500, 503}
Bodies ==
  {Body("object", 12, 34), Body("object", 0, 0), Body("null", 0, 0),
   Body("empty", 0, 0), Body("array", 0, 0), Body("text", 0, 0), Body("string_ids", 0, 0)}
Exchanges ==
  {Exchange(f, 0, Body("", 0, 0)) : f \in {"bad_url", "do_fails", "read_fails"}}
    \cup {Exchange("response", st, b) : st \in Statuses, b \in Bodies}

InitNotice ==
  /\ ProcessStart
  /\ FiltersIdle
  /\ payload = NilPayload /\ apiResp = NotSent
  /\ \/ /\ npc = "build"
        /\ notice = NilNotice
        /\ \E cfg \in BuilderConfigs, e \in BuildErrors, c \in BuildContexts,
              u \in BuildUsers, r \in BuildRequests, o \in BuildOptions :
             input = Input(cfg, Environ, e, c, u, r, o.Fingerprint, o.Tags,
                           Exchange("response", StatusCreated, Body("object", 12, 34)))
     \/ /\ npc = "built"
        /\ notice \in MadeNotices
        /\ \E k \in APIKeys, x \in Exchanges :
             input = Input(BuilderConfig(k, "production", <<>>, TRUE, FALSE, TRUE), Environ,
                           NilError, Nil, Nil, Nil, "", <<>>, x)

\* The program calls Build, which returns a Notice or panics.
BuildCall ==
  /\ npc = "build"
  /\ IF BuildPanics(input.cfg, input.err, input.context)
       THEN npc' = "panic" /\ UNCHANGED notice
       ELSE /\ npc' = "built"
            /\ notice' = Build(input.cfg, input.environ, input.err, input.context,
                               input.user, input.request, input.fingerprint, input.tags)
  /\ UNCHANGED <<wvars, task, tvars, hvars, pvars, nerr, fvars, tsvars>>
  /\ UNCHANGED <<input, payload, apiResp>>

\* The program calls ToPayload on its Notice ...
ToPayloadCall ==
  /\ npc = "built"
  /\ payload' = ToPayload(notice)
  /\ npc' = "payload"
  /\ UNCHANGED <<wvars, task, tvars, hvars, pvars, nerr, fvars, tsvars>>
  /\ UNCHANGED <<input, notice, apiResp>>

\* ... and gives the Notice to the Send of a Client made for its
\* configuration.
SendCall ==
  /\ npc = "payload"
  /\ apiResp' = Send(input.cfg.APIKey, notice, input.exchange)
  /\ npc' = "sent"
  /\ UNCHANGED <<wvars, task, tvars, hvars, pvars, nerr, fvars, tsvars>>
  /\ UNCHANGED <<input, notice, payload>>

NextNotice ==
  \/ BuildCall
  \/ ToPayloadCall
  \/ SendCall

SpecNotice == InitNotice /\ [][NextNotice]_vars

\* ===================================================== the claims
\* The caller's Worker method returns in this step.
Returns(t, from) == pc[t] \in from /\ pc'[t] = kont[t]

\* A processing goroutine starts a delivery attempt in this step.
AttemptStarts(k) == task'[k].pc = "sending" /\ task[k].pc # "sending"

\* The notices of w that have had a delivery attempt started: a notice leaves
\* the queue only by Dequeue, which starts its first Client.Send.
Attempted(w) == accepted[w] \ Range(queue[w])

\* ------------------------------------------------------------------ C1
\* C1: the queue never holds more than MaxQueueSize notices; a Push that
\* finds the worker running goes on to its select, which enqueues the notice
\* and returns true when it finds fewer than MaxQueueSize queued, and returns
\* false and leaves the queue as it is when it finds MaxQueueSize queued
\* (unless the process dies of a panic under it).
C1_PushStep(t) ==
  LET w == tw[t] IN
  /\ (pc[t] = "push_locked" /\ pc'[t] # "push_locked" /\ running[w] /\ ~Crashed')
        => pc'[t] = "push_select"
  /\ (pc[t] = "push_select" /\ pc'[t] # "push_select" /\ ~Crashed') =>
        IF Len(queue[w]) < MaxQueueSize
          THEN pc'[t] = "push_true" /\ queue'[w] = Append(queue[w], NewNotice)
          ELSE pc'[t] = "push_full" /\ queue' = queue

C1_QueueCapacity ==
  /\ [](\A w \in Workers : Len(queue[w]) <= MaxQueueSize)
  /\ [][\A t \in Callers : C1_PushStep(t)]_vars

\* A Push has just returned false on a running worker whose queue holds
\* MaxQueueSize notices, all of them accepted by earlier Pushes.
C1_Witness ==
  \E t \in Callers :
    /\ pc[t] = "push_full"
    /\ running[tw[t]]
    /\ Len(queue[tw[t]]) = MaxQueueSize
    /\ Range(queue[tw[t]]) \subseteq accepted[tw[t]]

\* ------------------------------------------------------------------ C2
\* C2: a Push never waits for the processing goroutine.  Its own steps are
\* enabled whatever the other goroutines do, and the only thing it can wait
\* for, the mutex, is held only by a goroutine inside one of the four short
\* critical sections, whose next step is enabled as well: never by one that
\* waits for a send, a backoff, a flush or a drain.  (A process that has died
\* of a panic has no Push left in it.)
LockedPcs == {"start_locked", "stop_locked", "push_locked", "flush_locked"}

C2_PushNeverWaits ==
  ~Crashed =>
  /\ \A t \in Callers :
       /\ pc[t] = "push_locked" => ENABLED PushBody(t)
       /\ pc[t] = "push_select" => ENABLED PushSelect(t)
       /\ pc[t] \in {"push_true", "push_full", "push_stopped"} => ENABLED PushReturn(t)
  /\ \A w \in Workers :
       runningMu[w] # NoThread =>
          /\ pc[runningMu[w]] \in LockedPcs
          /\ tw[runningMu[w]] = w
          /\ ENABLED (\/ StartBody(runningMu[w]) \/ StopBody(runningMu[w])
                      \/ PushBody(runningMu[w]) \/ FlushBody(runningMu[w]))

\* A Push is at its select while a Stop waits for the processing goroutine,
\* which has a delivery attempt in flight.
C2_Witness ==
  \E t, u \in Callers :
    /\ pc[t] = "push_select"
    /\ pc[u] = "stop_wait"
    /\ tw[t] = tw[u]
    /\ InFlight(tw[t]) # {}

\* ------------------------------------------------------------------ C3
\* C3: while the resolved configuration is enabled and asynchronous, no
\* Notify makes a delivery attempt on its caller's goroutine, and no Notify
\* waits at mu for a Stop that waits for a delivery attempt in flight.
AsyncEnabled == config.set /\ config.Enabled /\ config.AsyncSend

C3_NotifyNeverSends ==
  AsyncEnabled =>
    \A t \in Callers :
       /\ pc[t] # "notify_sending"
       /\ (pc[t] = "notify_rlock" /\ mu.w # NoThread) =>
             ~(pc[mu.w] = "stop_wait" /\ InFlight(tw[mu.w]) # {})

\* ------------------------------------------------------------------ C4
\* C4: when a Flush that found the worker running returns, every notice that
\* was in the queue when Flush was called has left the queue and no
\* processing goroutine is still working on it.
C4_FlushDrainsQueuedAtCall ==
  [][\A t \in Callers :
       Returns(t, {"flush_check", "flush_acked"}) =>
          \A n \in snap[t].q :
             n \notin Range(queue[tw[t]]) /\ n \notin Held(tw[t])]_vars

\* ------------------------------------------------------------------ C5
\* C5: when every attempt so far has succeeded, k notices had been accepted
\* and no Push was under way when Flush was called, and none has been since,
\* then at the return of that Flush (on a running worker) the queue is empty,
\* no attempt is in flight, and exactly k attempts have been made.
C5_FlushAfterPushes ==
  [][\A t \in Callers :
       ( /\ Returns(t, {"flush_check", "flush_acked"})
         /\ sent # Unreliable
         /\ snap[t].k >= 1
         /\ snap[t].k = Cardinality(accepted[tw[t]])
         /\ \A u \in Callers : ~InPush(u) )
       => /\ queue[tw[t]] = <<>>
          /\ InFlight(tw[t]) = {}
          /\ sent = snap[t].k]_vars

\* ------------------------------------------------------------------ C6
\* C6: a Stop that found the worker running never fails, and while it waits
\* it can always return at its timeout, whatever is queued or in flight.
C6_StopAlwaysReturns ==
  /\ ~Crashed
  /\ \A t \in Callers : pc[t] = "stop_wait" => ENABLED StopWaitTimeout(t)

\* ------------------------------------------------------------------ C7
\* C7: once a Stop of the worker has returned at its timeout, no processing
\* goroutine of that worker starts a delivery attempt.
C7_NoSendAfterTimeout ==
  [][\A k \in Tasks :
       (task[k].pc # "none" /\ timedOut[task[k].w] = "stop") => ~AttemptStarts(k)]_vars

\* ------------------------------------------------------------------ C8
\* C8: when a Stop that found the worker running returns and no shutdown
\* timeout has elapsed, then for every notice whose Push had returned true
\* before Stop was called, the notice has had a delivery attempt and the
\* queue is empty.
C8_StopFlushesPending ==
  [][\A t \in Callers :
       (Returns(t, {"stop_wait"}) /\ timedOut'[tw[t]] = "none") =>
          \A n \in snap[t].q :
             n \in Attempted(tw[t]) /\ queue[tw[t]] = <<>>]_vars

\* ------------------------------------------------------------------ C9
\* C9: a notice enters the queue of a worker only while the worker's
\* running flag is set.
C9_NoEnqueueAfterStop ==
  [][\A w \in Workers : Len(queue'[w]) > Len(queue[w]) => running[w]]_vars

\* ----------------------------------------------------------------- C10
\* C10: Stopped is terminal.  Once done has been closed the worker is never
\* running again, no processing goroutine is spawned, no notice is enqueued,
\* and no later Stop fails.
C10_StoppedIsTerminal ==
  [][\A w \in Workers :
       doneClosed[w] =>
          /\ ~running'[w]
          /\ TasksOf(w)' \subseteq TasksOf(w)
          /\ Len(queue'[w]) <= Len(queue[w])
          /\ ~Crashed']_vars

\* ----------------------------------------------------------------- C11
\* C11: a worker never has more than one processing goroutine, and never
\* more than one delivery attempt in flight; a Start that finds the worker
\* running spawns nothing.
C11_OneProcessingTask ==
  /\ [](\A w \in Workers : /\ Cardinality(TasksOf(w)) <= 1
                           /\ Cardinality(InFlight(w)) <= 1)
  /\ [][\A t \in Callers :
          (pc[t] = "start_locked" /\ pc'[t] # "start_locked" /\ running[tw[t]])
             => TasksOf(tw[t])' \subseteq TasksOf(tw[t])]_vars

\* ----------------------------------------------------------------- C12
\* C12: when Push(a) had returned true before Push(b) was called on the same
\* worker, the first delivery attempt for b starts only when a has left the
\* queue and no processing goroutine is still working on a.
C12_FifoDelivery ==
  [][\A k \in Tasks :
       (AttemptStarts(k) /\ task[k].pc # "backoff") =>
          \A a \in accepted[task'[k].w] :
             <<a, task'[k].notice>> \in order =>
                /\ a \notin Range(queue[task'[k].w])
                /\ a \notin Held(task'[k].w)]_vars

\* ----------------------------------------------------------------- C13
\* C13: on the paths that use sendWithRetry (the queue case of run and the
\* flush loop) a dequeued notice gets its first attempt at once and never
\* more than MaxRetries attempts: an attempt that returns a response ends
\* the work on the notice, a failed attempt other than the last one is
\* followed by a backoff and the next attempt on the same notice, and a
\* failed last attempt abandons the notice; the goroutine then goes back to
\* its loop.
Retrying(k) == task[k].pc # "none" /\ task[k].mode # "drain"

C13_Released(k) ==
  /\ task'[k].notice = NoNotice
  /\ task'[k].attempt = 0
  /\ task'[k].pc = Resume(task[k].mode)

C13_RetryStep(k) ==
  /\ (Retrying(k) /\ task[k].notice = NoNotice /\ task'[k].notice # NoNotice)
        => task'[k].pc = "sending" /\ task'[k].attempt = 0
  /\ (Retrying(k) /\ SendReturns(k, "created")) => C13_Released(k)
  /\ \A o \in Outcomes \ {"created"} :
        (Retrying(k) /\ SendReturns(k, o)) =>
           IF task[k].attempt < MaxRetries - 1
             THEN /\ task'[k].pc = "backoff"
                  /\ task'[k].notice = task[k].notice
                  /\ task'[k].attempt = task[k].attempt
             ELSE C13_Released(k)
  /\ (Retrying(k) /\ task[k].pc = "backoff" /\ task'[k].pc # "backoff" /\ ~Crashed')
        => /\ task'[k].pc = "sending"
           /\ task'[k].notice = task[k].notice
           /\ task'[k].attempt = task[k].attempt + 1

C13_AtMostThreeAttempts ==
  /\ [](\A k \in Tasks :
          (Retrying(k) /\ task[k].notice # NoNotice) =>
             /\ task[k].attempt \in 0..(MaxRetries - 1)
             /\ task[k].pc \in {"sending", "backoff"})
  /\ [][\A k \in Tasks : C13_RetryStep(k)]_vars

\* The third attempt on a notice taken by the queue case of run is in flight.
C13_Witness ==
  \E k \in Tasks :
    /\ task[k].mode = "run"
    /\ task[k].pc = "sending"
    /\ task[k].attempt = MaxRetries - 1

\* ----------------------------------------------------------------- C14
\* C14: a delivery attempt answered with 401 or 422 is the last one its
\* notice gets: the goroutine is done with the notice, and no backoff and no
\* further attempt follow.
TerminalFailures == {"unauthorized", "unprocessable"}

C14_TerminalNotRetried ==
  [][\A k \in Tasks : \A o \in TerminalFailures :
       SendReturns(k, o) =>
          /\ task'[k].notice = NoNotice
          /\ task'[k].pc # "backoff"]_vars

\* ----------------------------------------------------------------- C15
\* C15: a notice that a processing goroutine receives from the queue after
\* done has been closed gets one delivery attempt: while the goroutine has
\* it in hand it is in its first Client.Send, never in a backoff or a retry.
C15_DrainSendsOnce ==
  \A k \in Tasks :
    (task[k].pc # "none" /\ task[k].afterDone) =>
       task[k].pc = "sending" /\ task[k].attempt = 0

\* ----------------------------------------------------------------- C16
\* A key is sensitive when its lowercase form contains a configured filter
\* key, compared without regard to case.
Sensitive(key) ==
  \E i \in DOMAIN filterKeys : Contains(ToLower(key), ToLower(filterKeys[i]))

IsContainer(v) == v.kind \in {"map", "slice"}

\* How far the checks follow the references of a cyclic input.
Fuel == 2 * MaxNest + 2

\* The scalar values held by v, at any depth.
RECURSIVE Atoms(_, _, _)
Atoms(h, v, fuel) ==
  LET d == Deref(h, v) IN
  IF ~IsContainer(d) THEN {d}
  ELSE IF fuel = 0 THEN {}
  ELSE UNION {Atoms(h, d.m[x], fuel - 1) : x \in DOMAIN d.m}

\* The scalar values held under the sensitive keys of v.
RECURSIVE Secrets(_, _, _)
Secrets(h, v, fuel) ==
  LET d == Deref(h, v) IN
  IF ~IsContainer(d) \/ fuel = 0 THEN {}
  ELSE UNION {IF d.kind = "map" /\ Sensitive(x)
                THEN Atoms(h, d.m[x], fuel)
                ELSE Secrets(h, d.m[x], fuel - 1) : x \in DOMAIN d.m}

\* What a scalar looks like in the output when it is let through.
Shown(a) ==
  CASE a.kind \in {"nil", "bool", "number"} -> {a}
    [] a.kind \in {"string", "stringer"} ->
         {String(a.s)} \cup
         {String(SubSeq(a.s, 1, n) \o "...") : n \in {maxStringLen} \cap 1..Len(a.s)}
    [] OTHER -> {a}

\* Output o redacts input v, a value `depth` steps below the top map: a map
\* keeps its keys, its sensitive keys hold the marker, and the same holds
\* below its other keys and below the items of a sequence.
RECURSIVE Redacts(_, _, _, _)
Redacts(h, v, o, depth) ==
  LET d == Deref(h, v) IN
  IF depth > maxDepth \/ ~IsContainer(d) THEN TRUE
  ELSE /\ o.kind = d.kind
       /\ DOMAIN o.m = DOMAIN d.m
       /\ \A x \in DOMAIN d.m :
            IF d.kind = "map" /\ Sensitive(x)
              THEN o.m[x] = String(FilteredValue)
              ELSE Redacts(h, d.m[x], o.m[x], depth + 1)

\* C16: in the map Filter returns, every sensitive key of the input at a
\* depth up to maxDepth, in a nested map or in a map inside a sequence, is
\* kept with FilteredValue as its value, and nothing that was held under a
\* sensitive key appears anywhere.
C16_RedactionComplete ==
  (fpc = "filtered" /\ data.kind # "nil") =>
     /\ Redacts(heap, data, out, 0)
     /\ \A a \in Secrets(heap, data, Fuel) :
          Shown(a) \cap Atoms(<<>>, out, Fuel) = {}

C16_Witness ==
  /\ fpc = "filtered"
  /\ filterKeys = <<"password", "token">>
  /\ data = Nest(Map("PassWord" :> Map("pin" :> String("s3cret"))
                     @@ "name" :> String("bob")), 2, "slice")
  /\ out.m["items"].m[1].m["items"].m[1].m["PassWord"] = String(FilteredValue)

\* ----------------------------------------------------------------- C17
\* C17: filtering what Filter returned gives the same map again.
C17_FilterIdempotent == [][FilterAgain => out' = out]_vars

C17_Witness ==
  /\ fpc = "refiltered"
  /\ data = Map("username" :> Stringer(LongString) @@ "name" :> String("bob"))
  /\ out.m["username"] = String(Repeat("s", maxStringLen) \o "...")

\* ----------------------------------------------------------------- C18
\* Below maxDepth levels of maps and sequences the output holds a fixed
\* string only: the sentinel, or the marker of a sensitive key.
RECURSIVE CutAtMaxDepth(_, _)
CutAtMaxDepth(o, depth) ==
  IF depth > maxDepth
    THEN o \in {String("[MAX DEPTH EXCEEDED]"), String(FilteredValue)}
  ELSE IF IsContainer(o) THEN \A x \in DOMAIN o.m : CutAtMaxDepth(o.m[x], depth + 1)
  ELSE TRUE

\* C18: Filter returns on every input, a map nested deeper than maxDepth
\* and a map that holds itself included, and what it returns is nested no
\* deeper than maxDepth, with the sentinel where it cut.
C18_FilterTerminates ==
  /\ fpc = "sanitize" => IsContainer(Filter(NewSanitizeFilter(filterKeys), heap, data))
                           \/ data.kind = "nil"
  /\ fpc \in {"filtered", "refiltered"} => CutAtMaxDepth(out, 0)

C18_Witness ==
  /\ fpc = "filtered"
  /\ data = Ref(1) /\ Len(heap) = 2
  /\ \E a \in Atoms(<<>>, out, Fuel) : a = String("[MAX DEPTH EXCEEDED]")

\* ----------------------------------------------------------------- C19
\* A notice has been built for t's call.
Built(t) ==
  \/ pc[t] \in {"notify_build", "notify_push", "notify_sending", "notify_pushed",
               "sync_build", "sync_sending"}
  \/ kont[t] = "notify_pushed"
  \/ nerr[t].notice # NilNotice

\* C19: a Notify or NotifySync call whose error ShouldIgnore accepts under
\* the configured patterns (a nil error under any) builds no notice: it
\* reaches no callback, no capture, no Push and no Send.
C19_IgnoredNeverBuilt ==
  \A t \in Callers :
     (nerr[t] # NoCall /\ ShouldIgnore(config.IgnoredErrors, nerr[t].err)) => ~Built(t)

C19_Witness ==
  \E t \in Callers :
     /\ pc[t] = "idle"
     /\ nerr[t] \in {Ignored(NilError), Ignored(Error("*app.customError", "test error"))}

\* ----------------------------------------------------------------- C20
\* C20: with the pattern ".*timeout.*" in the list, ShouldIgnore is true for
\* every error whose type name contains "Timeout", and with that pattern
\* alone it is false for the error made by errors.New.
C20_TimeoutPattern ==
  (fpc = "decided" /\ \E i \in DOMAIN patterns : patterns[i] = StringPattern(".*timeout.*")) =>
     /\ (err # NilError /\ Contains(TypeOf(err), "Timeout")) => ignored
     /\ (TypeOf(err) = "*errors.errorString" /\ Len(patterns) = 1) => ~ignored

\* ----------------------------------------------------------------- C21
\* The patterns in the opposite order.
Reverse(ps) == [i \in DOMAIN ps |-> ps[Len(ps) + 1 - i]]

\* Every pattern a list of the model holds.
AllPatterns == UNION {{PatternLists[l][i] : i \in DOMAIN PatternLists[l]} : l \in DOMAIN PatternLists}

\* C21: for a non-nil error ShouldIgnore is true exactly when one of the
\* patterns, taken alone, matches it; so it is false for the empty list, the
\* same for the patterns in another order, and still true with a pattern
\* more; and the call leaves the filter and the error as they were.
C21_AnyPatternMatches ==
  /\ [](fpc = "decided" /\ err # NilError =>
          /\ ignored = (\E i \in DOMAIN patterns : ShouldIgnore(<<patterns[i]>>, err))
          /\ patterns = <<>> => ~ignored
          /\ ShouldIgnore(Reverse(patterns), err) = ignored
          /\ \A p \in AllPatterns :
               ignored => /\ ShouldIgnore(Append(patterns, p), err)
                          /\ ShouldIgnore(<<p>> \o patterns, err))
  /\ [][ShouldIgnoreCall => UNCHANGED <<patterns, err>>]_vars

C21_Witness ==
  /\ fpc = "decided"
  /\ Len(patterns) = 2
  /\ ~ShouldIgnore(<<patterns[1]>>, err)
  /\ ignored

\* ----------------------------------------------------------------- C22
\* C22: with an error value as the only pattern, ShouldIgnore is true for
\* exactly the non-nil errors of the pattern's type, whatever the message of
\* the error and of the pattern.
C22_InstanceByType ==
  (fpc = "decided" /\ Len(patterns) = 1 /\ patterns[1].kind = "error" /\ err # NilError) =>
     ignored = (TypeOf(err) = TypeOf(patterns[1].e))

C22_Witness ==
  /\ fpc = "decided"
  /\ patterns = <<ErrorPattern(Error("*app.customError", "test"))>>
  /\ err = Error("*app.customError", "another")
  /\ ignored

\* ----------------------------------------------------------------- C27
\* C27: Send returns a response exactly when the API key is set, the
\* payload serializes, the request gets a response with status 201 and the
\* body is JSON that fits an APIResponse, and then it is the response the
\* body describes; in every other case it returns nil.  With no API key no
\* request goes out.
C27_ResponseOnlyFor201 ==
  npc = "sent" =>
    LET x == input.exchange IN
    /\ ~apiResp.resp.nil <=>
         /\ input.cfg.APIKey # ""
         /\ \A k \in DOMAIN notice.Context.m : notice.Context.m[k].kind # "opaque"
         /\ x.fate = "response"
         /\ x.status = 201
         /\ x.body.json \in {"object", "null"}
    /\ ~apiResp.resp.nil => apiResp.resp = APIResponse(x.body.id, x.body.problem_id)
    /\ input.cfg.APIKey = "" => ~apiResp.issued

C27_Witness ==
  /\ npc = "sent"
  /\ input.cfg.APIKey = "key"
  /\ input.exchange = Exchange("response", 201, Body("text", 0, 0))
  /\ apiResp.issued /\ apiResp.resp = NilResponse

\* ----------------------------------------------------------------- C28
\* C28: in the payload made from a Notice, the context key "environment"
\* holds the Notice's Environment, and every other entry of the Notice's
\* context is in the payload's context with the same value.
C28_ReservedEnvironment ==
  npc \in {"payload", "sent"} =>
    /\ payload.Context.m["environment"] = String(notice.Environment)
    /\ \A k \in DOMAIN notice.Context.m \ {"environment"} :
         /\ k \in DOMAIN payload.Context.m
         /\ payload.Context.m[k] = notice.Context.m[k]

\* ----------------------------------------------------------------- C29
\* The program's Notice came from Build.
FromBuild == npc \in {"built", "payload", "sent"} /\ input.err # NilError

\* C29: the Notice Build returns has a User exactly when the user map has
\* entries and SendUserData is on, and a Request exactly when the request
\* map has entries and SendRequestData is on (the filtered map in both
\* cases); the payload has a user or request block exactly when the Notice's
\* map has entries.
C29_UserAndRequestGated ==
  LET f == NewSanitizeFilter(input.cfg.FilterKeys)
      user == input.cfg.SendUserData /\ input.user \notin {Nil, EmptyMap}
      request == input.cfg.SendRequestData /\ input.request \notin {Nil, EmptyMap}
  IN
  /\ FromBuild =>
       /\ notice.User = IF user THEN Filter(f, <<>>, input.user) ELSE Nil
       /\ notice.Request = IF request THEN Filter(f, <<>>, input.request) ELSE Nil
  /\ (FromBuild /\ npc # "built") =>
       /\ payload.User = IF user THEN Filter(f, <<>>, input.user) ELSE Nil
       /\ payload.Request = IF request THEN Filter(f, <<>>, input.request) ELSE Nil
  /\ npc \in {"payload", "sent"} =>
       /\ payload.User = IF notice.User \in {Nil, EmptyMap} THEN Nil ELSE notice.User
       /\ payload.Request = IF notice.Request \in {Nil, EmptyMap} THEN Nil ELSE notice.Request

C29_Witness ==
  /\ npc = "payload"
  /\ ~input.cfg.SendUserData /\ input.cfg.SendRequestData
  /\ input.user \notin {Nil, EmptyMap} /\ input.request \notin {Nil, EmptyMap}
  /\ notice.User = Nil /\ payload.User = Nil
  /\ payload.Request # Nil

\* ----------------------------------------------------------------- C23
\* The callbacks of a list up to the first that returns false.
UpToFirstFalse(callbacks) ==
  LET stop == {i \in DOMAIN callbacks : ~callbacks[i]}
  IN IF stop = {} THEN [i \in DOMAIN callbacks |-> i]
     ELSE [i \in 1..(CHOOSE m \in stop : \A j \in stop : m <= j) |-> i]

\* A callback called for t's call has returned false.
Halted(t) == \E i \in Range(nerr[t].hooks) : ~config.BeforeNotify[i]

\* C23: the callbacks called for a call are those of the configured list up
\* to the first that returns false, in the order of the list, and none is
\* called for an error ShouldIgnore accepts.  A call for which a callback
\* has returned false is at its return, has made no Client.Send and (for
\* NotifySync) returns nil; no step taken while a call is halted adds a
\* notice to testingNotices or to a queue.
C23_FalseHookHalts ==
  /\ [](\A t \in Callers :
          /\ nerr[t].hooks # <<>> => ~ShouldIgnore(config.IgnoredErrors, nerr[t].err)
          /\ nerr[t].notice # NilNotice => nerr[t].hooks = UpToFirstFalse(config.BeforeNotify)
          /\ Halted(t) => /\ pc[t] \in {"notify_return", "sync_return"}
                          /\ nerr[t].attempts = 0
                          /\ nerr[t].resp = NilResponse)
  /\ [][\A t \in Callers :
          (Halted(t) \/ Halted(t)') => UNCHANGED <<testingNotices, accepted>>]_vars

C23_Witness ==
  /\ pc[1] = "sync_return"
  /\ config.BeforeNotify = <<TRUE, FALSE, TRUE>>
  /\ nerr[1].hooks = <<1, 2>>
  /\ nerr[1].resp = NilResponse

\* ----------------------------------------------------------------- C24
\* The SDK is not configured (never, or not since Reset) or not enabled.
Disabled == ~initialized \/ ~config.set \/ ~config.Enabled

\* t is inside Notify or NotifySync and holds mu.RLock().
InCall(t) ==
  \/ pc[t] \in {"notify_locked", "notify_build", "notify_push", "notify_sending",
               "notify_return", "notify_pushed", "sync_locked", "sync_build",
               "sync_sending", "sync_return"}
  \/ kont[t] = "notify_pushed"

\* C24: a Notify or NotifySync call made while the SDK is not configured,
\* has been Reset, or has Enabled false goes from the check to its return:
\* it builds no notice, calls no callback, makes no Client.Send and (for
\* NotifySync) returns nil, and no step taken during it adds a notice to
\* testingNotices or to a queue.
C24_DisabledDoesNothing ==
  /\ [](\A t \in Callers :
          (Disabled /\ InCall(t)) =>
             /\ pc[t] \in {"notify_locked", "notify_return", "sync_locked", "sync_return"}
             /\ nerr[t].notice = NilNotice
             /\ nerr[t].hooks = <<>>
             /\ nerr[t].attempts = 0
             /\ nerr[t].resp = NilResponse)
  /\ [][\A t \in Callers :
          (Disabled /\ InCall(t)) => UNCHANGED <<testingNotices, accepted>>]_vars

\* A NotifySync returns after a Reset: a worker had accepted a notice, and
\* the SDK is not initialized any more.
C24_Witness ==
  /\ pc[1] = "sync_return"
  /\ ~initialized /\ AllAccepted # {}
  /\ nerr[1].err # NilError
  /\ nerr[1].state = "disabled"

\* ----------------------------------------------------------------- C25
\* t's call will pass the checks, and the testing mode is on.
Capturing(t) ==
  /\ testingEnabled /\ ~Disabled
  /\ ~ShouldIgnore(config.IgnoredErrors, nerr[t].err)
  /\ \A i \in DOMAIN config.BeforeNotify : config.BeforeNotify[i]

\* C25: in testing mode, with the SDK enabled, the build step of a Notify
\* or NotifySync call whose error is not ignored and whose callbacks all
\* return true appends one notice to testingNotices, with the error's
\* message and the call's fingerprint and tags, and goes to the return
\* (NotifySync with a non-nil response); the call makes no Client.Send and
\* adds nothing to a queue, and testingNotices grows by no other step.
C25_TestingCaptures ==
  /\ [][\A t \in Callers :
          (pc[t] \in {"notify_build", "sync_build"} /\ pc'[t] # pc[t] /\ Capturing(t)) =>
             /\ Len(testingNotices') = Len(testingNotices) + 1
             /\ SubSeq(testingNotices', 1, Len(testingNotices)) = testingNotices
             /\ LET n == testingNotices'[Len(testingNotices')]
                IN /\ n.Message = nerr[t].err.message
                   /\ n.Fingerprint = nerr[t].opts.Fingerprint
                   /\ n.Tags = nerr[t].opts.Tags
             /\ pc'[t] \in {"notify_return", "sync_return"}
             /\ pc[t] = "sync_build" => ~nerr'[t].resp.nil]_vars
  /\ [][\A t \in Callers :
          (InCall(t) /\ Capturing(t)) =>
             /\ UNCHANGED accepted
             /\ nerr'[t].attempts = 0
             /\ pc[t] \notin {"notify_build", "sync_build"} => UNCHANGED testingNotices]_vars
  /\ [][Len(testingNotices') > Len(testingNotices) =>
          \E t \in Callers : pc[t] \in {"notify_build", "sync_build"} /\ Capturing(t)]_vars

\* Two calls have been captured in the order they were made, the second a
\* NotifySync that is about to return.
C25_Witness ==
  /\ pc[1] = "sync_return"
  /\ Len(testingNotices) = 2
  /\ testingNotices[1].Fingerprint = "custom-fp" /\ testingNotices[1].Tags = <<"tag1", "tag2">>
  /\ testingNotices[2].Fingerprint = "" /\ testingNotices[2].Message = "test error"
  /\ nerr[1].resp = TestingResponse

\* ----------------------------------------------------------------- C26
SyncPcs == {"sync_rlock", "sync_locked", "sync_build", "sync_sending", "sync_return"}

\* C26: outside the testing mode a NotifySync call makes at most one
\* Client.Send and never puts a notice in a queue; what it returns is a
\* response exactly when it made that one Send and the Send succeeded, so
\* it is nil when the SDK is disabled, the error ignored, a callback false
\* (no Send is made then) and when the Send fails.
C26_SyncSingleAttempt ==
  /\ [](\A t \in Callers :
          (pc[t] \in SyncPcs /\ ~testingEnabled) =>
             /\ nerr[t].attempts <= 1
             /\ pc[t] = "sync_return" =>
                  /\ ~nerr[t].resp.nil <=> (nerr[t].attempts = 1 /\ nerr[t].outcome = "created")
                  /\ (Disabled \/ ShouldIgnore(config.IgnoredErrors, nerr[t].err) \/ Halted(t)) =>
                        nerr[t].attempts = 0 /\ nerr[t].resp.nil)
  /\ [][\A t \in Callers : pc[t] \in SyncPcs => UNCHANGED accepted]_vars

C26_Witness ==
  /\ pc[1] = "sync_return"
  /\ ~testingEnabled
  /\ nerr[1].attempts = 1 /\ nerr[1].outcome = "server_error"
  /\ nerr[1].resp = NilResponse

\* ----------------------------------------------------------------- C30
\* C30: a Configure with AsyncSend false and an API key leaves the resolved
\* configuration with AsyncSend false and starts no worker.
C30_ExplicitSyncRespected ==
  [][\A t \in Callers, cfg \in ApiConfigs :
       (~cfg.AsyncSend /\ cfg.APIKey # "" /\ Configure(t, cfg)) =>
          /\ ~config'.AsyncSend
          /\ UNCHANGED worker
          /\ pc'[t] # "start_locked"]_vars

\* ----------------------------------------------------------------- C31
\* No caller other than t is inside a method of the worker.
Alone(t) == \A u \in Callers \ {t} : pc[u] = "idle"

\* C31: a Push that reads the running flag of a worker that is not running
\* (never started, or stopped), while no other caller is inside a method,
\* goes to its `return false` and returns from there; neither step puts
\* anything in the queue.
C31_PushOnStoppedWorker ==
  [][\A t \in Callers :
       /\ (pc[t] = "push_locked" /\ pc'[t] # pc[t] /\ ~running[tw[t]] /\ Alone(t)) =>
             /\ pc'[t] = "push_stopped"
             /\ UNCHANGED <<queue, accepted>>
       /\ (pc[t] = "push_stopped" /\ pc'[t] # pc[t] /\ Alone(t)) =>
             /\ pc'[t] = kont[t]
             /\ UNCHANGED <<queue, accepted>>]_vars

\* A Push is at its `return false` on a worker that was started, accepted a
\* notice and was stopped, with nobody else inside a method.
C31_Witness ==
  \E t \in Callers :
    /\ pc[t] = "push_stopped"
    /\ Alone(t)
    /\ doneClosed[tw[t]] /\ ~running[tw[t]]
    /\ accepted[tw[t]] # {}

\* ----------------------------------------------------------------- C32
InFlush(t) == pc[t] \in {"flush_locked", "flush_check", "flush_send",
                         "flush_wait", "flush_acked"}

\* C32: every Flush call returns in the end, whatever Stop does meanwhile
\* (every delivery attempt ends, and the callers push MaxNotices notices at
\* most).
C32_FlushReturns == \A t \in Callers : InFlush(t) ~> ~InFlush(t)

\* ----------------------------------------------------------------- C33
\* C33: when a Stop call returns, every processing goroutine of its worker
\* has exited or a shutdown timeout of that worker has elapsed (a worker
\* that was never started has no processing goroutine).
C33_StopWaitsForExit ==
  [][\A t \in Callers :
       Returns(t, {"stop_locked", "stop_wait"}) =>
          \/ TasksOf(tw[t]) = {}
          \/ timedOut'[tw[t]] # "none"]_vars

\* ----------------------------------------------------------------- C34
\* t is in a Client.Send made on its own goroutine by Notify or NotifySync.
CallerSideSend(t) == pc[t] \in {"notify_sending", "sync_sending"}

\* C34: the package-level Stop never waits for a delivery made on a caller's
\* goroutine: while a Notify or NotifySync is inside its Client.Send, a
\* Stop called by another goroutine gets mu.Lock() and goes on.
C34_StopNeverWaitsForCaller ==
  \A t \in Callers : \A u \in Callers \ {t} :
     (pc[t] = "idle" /\ CallerSideSend(u) /\ mu.w = NoThread) => ENABLED Stop(t)

\* ----------------------------------------------------------------- C35
\* The processing goroutines alive in the process.
AliveTasks == {k \in Tasks : task[k].pc # "none"}

\* C35: at most one processing goroutine is alive in the process, and a
\* Worker that is running is the package's worker, so that Flush and Stop
\* reach it and the notices in its queue.
C35_SingleWorker ==
  /\ Cardinality(AliveTasks) <= 1
  /\ \A w \in Workers : running[w] => worker = w

\* ----------------------------------------------------------------- C39
\* C39: a processing goroutine sleeps only between two attempts of
\* sendWithRetry: for 100 ms after the first attempt failed and for 200 ms
\* after the second failed.  An attempt that succeeds and the third attempt
\* are followed by no sleep, whatever their outcome, and so is the one
\* attempt of drain.
C39_BackoffDelays ==
  /\ [](\A k \in Tasks :
          IF task[k].pc = "backoff"
            THEN /\ task[k].mode # "drain"
                 /\ task[k].attempt \in {0, 1}
                 /\ task[k].attempt = 0 => task[k].delay = 100
                 /\ task[k].attempt = 1 => task[k].delay = 200
            ELSE task[k].delay = 0)
  /\ [][\A k \in Tasks, o \in Outcomes :
          SendReturns(k, o) =>
             (task'[k].pc = "backoff" <=>
                /\ o # "created"
                /\ task[k].mode # "drain"
                /\ task[k].attempt < 2)]_vars

\* A goroutine sleeps after the second attempt on a notice failed.
C39_Witness ==
  \E k \in Tasks :
    /\ task[k].pc = "backoff"
    /\ task[k].attempt = 1
    /\ task[k].delay = 200

\* ----------------------------------------------------------------- C36
\* The lowercase form of a key contains one of the filter keys configured.
SensitiveFor(keys, key) ==
  \E i \in DOMAIN keys : Contains(ToLower(key), ToLower(keys[i]))

\* In value o of a Notice, `depth` steps below one of its maps, every
\* sensitive key of a map holds the redaction marker, down to maxDepth, in
\* maps of values and in maps of strings alike.
RECURSIVE AllRedacted(_, _, _)
AllRedacted(keys, o, depth) ==
  IF depth > maxDepth THEN TRUE
  ELSE CASE o.kind = "map" ->
              \A x \in DOMAIN o.m :
                 IF SensitiveFor(keys, x) THEN o.m[x] = String(FilteredValue)
                 ELSE AllRedacted(keys, o.m[x], depth + 1)
         [] o.kind = "stringmap" ->
              \A x \in DOMAIN o.m : SensitiveFor(keys, x) => o.m[x] = FilteredValue
         [] o.kind = "slice" ->
              \A x \in DOMAIN o.m : AllRedacted(keys, o.m[x], depth + 1)
         [] OTHER -> TRUE

\* C36: in the Notice Build returns, every key of the context, user and
\* request maps whose lowercase form contains a configured filter key holds
\* the redaction marker, at every depth up to maxDepth, the environment
\* variables stored under "env" included.
C36_NoticeRedacted ==
  FromBuild =>
     /\ AllRedacted(input.cfg.FilterKeys, notice.Context, 0)
     /\ AllRedacted(input.cfg.FilterKeys, notice.User, 0)
     /\ AllRedacted(input.cfg.FilterKeys, notice.Request, 0)

\* ----------------------------------------------------------------- C37
TruncatedMap == Map("_truncated" :> String("[MAX DEPTH EXCEEDED]"))

\* Output o stands for input v, which filterValue meets at `depth`: beyond
\* maxDepth a map has become the map with the "_truncated" marker and a
\* scalar the string sentinel; up to maxDepth the same holds below v.
RECURSIVE Marked(_, _, _, _)
Marked(h, v, o, depth) ==
  LET d == Deref(h, v) IN
  IF depth > maxDepth
    THEN CASE d.kind = "map" -> o = TruncatedMap
           [] d.kind = "slice" -> TRUE
           [] OTHER -> o = String("[MAX DEPTH EXCEEDED]")
  ELSE IF IsContainer(d) /\ IsContainer(o)
    THEN \A x \in DOMAIN d.m \cap DOMAIN o.m :
           (d.kind = "map" /\ Sensitive(x)) \/ Marked(h, d.m[x], o.m[x], depth + 1)
  ELSE TRUE

\* C37: in what Filter returns, a map of the input that lies deeper than
\* maxDepth has become the map holding the single "_truncated" marker, and
\* a scalar that lies deeper than maxDepth the string sentinel.
C37_TruncationMarkers ==
  (fpc = "filtered" /\ data.kind # "nil") =>
     \A x \in DOMAIN Deref(heap, data).m :
        Sensitive(x) \/ Marked(heap, Deref(heap, data).m[x], out.m[x], 1)

\* ----------------------------------------------------------------- C38
\* C38: called with an error and a nil context map, Build returns a Notice,
\* whether SendEnvironment is on or off; with SendEnvironment on, the
\* Notice's context holds the environment snapshot under "env".
C38_BuildTotalOnNilContext ==
  (input.err # NilError /\ input.context = Nil) =>
     /\ npc # "panic"
     /\ (npc = "built" /\ input.cfg.SendEnvironment) =>
           /\ "env" \in DOMAIN notice.Context.m
           /\ notice.Context.m["env"] = getEnvironmentVars(input.environ)

\* ----------------------------------------------------------------- C40
\* The maps and slices of the heap that value v holds, at any depth of its
\* own maps and slices.
RECURSIVE Refs(_)
Refs(v) ==
  CASE v.kind = "ref" -> {v.n}
    [] IsContainer(v) -> UNION {Refs(v.m[x]) : x \in DOMAIN v.m}
    [] OTHER -> {}

\* What v looks like to a reader that follows its references into heap h.
RECURSIVE Seen(_, _, _)
Seen(h, v, fuel) ==
  CASE v.kind = "ref" -> IF fuel = 0 THEN v ELSE Seen(h, h[v.n], fuel - 1)
    [] v.kind = "map" -> Map([x \in DOMAIN v.m |-> Seen(h, v.m[x], fuel)])
    [] v.kind = "slice" -> Slice([x \in DOMAIN v.m |-> Seen(h, v.m[x], fuel)])
    [] OTHER -> v

\* C40: the call of Filter leaves the data and every map and slice in it
\* as they were; what it returns holds none of the maps and slices of the
\* input; and when the program changes its data afterwards, what Filter
\* returned looks the same as before.
C40_FilterCopies ==
  /\ [](fpc \in {"filtered", "changed"} => Refs(out) = {})
  /\ [][FilterCall => UNCHANGED <<heap, data>>]_vars
  /\ [][DataChange => Seen(heap', out', 2) = Seen(heap, out, 2)]_vars

\* The program has overwritten the slice its map held; the slice in the
\* result still holds the filtered items.
C40_Witness ==
  /\ fpc = "changed"
  /\ data = Ref(1) /\ Len(heap) = 2
  /\ heap[2] = Slice(<<String("changed"), String("changed")>>)
  /\ out.m["list"].kind = "slice"
  /\ out.m["list"].m[2] = String("x")

====
